---- MODULE Spec2Model ----
(***************************************************************************)
(* A model of the muonic core: the analyzer lifecycle (BaseAnalyzer and    *)
(* its subclasses), RateAnalyzer's periodic query task and calculate, the  *)
(* BufferedConsumer / FileConsumer fan-out and the App dispatcher chain.   *)
(*                                                                         *)
(* Objects are records, methods are operators from a world record (the     *)
(* objects a call can touch) to the world after the call; an action picks  *)
(* the inputs of one call or one thread step and commits the resulting     *)
(* world.  Several specifications share the definitions; each one drives   *)
(* the part of the program its properties are about.                       *)
(***************************************************************************)
EXTENDS Integers, Sequences, FiniteSets, TLC

VARIABLES
    analyzers,   \* App.analyzers restricted to BaseAnalyzer instances (class names, in order)
    an,          \* class name -> BaseAnalyzer fields
    rate,        \* RateAnalyzer's own fields and its update thread
    decay,       \* DecayAnalyzer's own fields
    clog,        \* what the consumers registered on the analyzers received, in order
    dlog,        \* what was put to the transport, in order
    now,         \* the clock (time.time()), in ticks
    mainpc,      \* where the calling thread is: "idle", or blocked in "join"
    ret,         \* how the calling thread's last call ended
    calls,       \* the lifecycle calls made so far, in order
    bc,          \* the BufferedConsumer: queue, refcount, worker thread
    wk,          \* the worker thread's position in _process_data and its locals
    fc,          \* the wrapped FileConsumer: open_files and the file objects
    regd,        \* analyzer -> where it stands with the BufferedConsumer
    mpc,         \* the dispatcher thread's position inside a BufferedConsumer call
    tp,          \* the rate update thread's position inside publish
    hist,        \* what was enqueued, delivered and written, in order
    app,         \* the App: running flag, settings, runs made
    card,        \* the DAQ card behind the transport: registers, lines it has sent
    chain        \* what process_incoming did with the last line it took

anVars == <<analyzers, an, rate, decay, clog, dlog, now, mainpc, ret, calls>>

bufVars == <<bc, wk, fc, regd, mpc, tp, hist>>

appVars == <<app, card, chain>>

vars == <<anVars, bufVars, appVars>>

----------------------------------------------------------------------------
(* Values *)

None == "None"

Classes == {"DummyAnalyzer", "RateAnalyzer", "PulseAnalyzer", "DecayAnalyzer", "VelocityAnalyzer"}

RESULT_DATA_TYPES(a) ==
    CASE a = "DummyAnalyzer"    -> <<"RAW">>
      [] a = "RateAnalyzer"     -> <<"RATE">>
      [] a = "PulseAnalyzer"    -> <<"PULSE">>
      [] a = "DecayAnalyzer"    -> <<"DECAY">>
      [] a = "VelocityAnalyzer" -> <<"VELOCITY">>

\* The consumers registered on every analyzer, in registration order.
Consumers == <<"c1", "c2">>

\* A run comes with the transport handle the caller binds to it.
RunIds == {"r1", "r2"}

DaqOf(r) == IF r = "r1" THEN "daqA" ELSE "daqB"

\* isinstance(self.daq, BaseDAQProvider)
IsProvider(d) == d \in {"daqA", "daqB"}

SCALAR_BUF_SIZE == 5

UpdateInterval == 1

MaxCalls == 4

MaxIter == 1

MaxCalc == 2

MaxAnCalc == 2

MaxPub == 1

Range(s) == {s[i] : i \in 1..Len(s)}

----------------------------------------------------------------------------
(* BaseAnalyzer *)

NewAnalyzer ==
    [active |-> FALSE, disabled |-> FALSE, last_run_id |-> None, last_daq |-> None,
     daq |-> None, current_run_id |-> None]

\* for consumer in self.consumers: consumer.<op>(...)
NotifyFrom(w, i, note) ==
    [w EXCEPT !.clog = @ \o [k \in 1..(Len(Consumers) - i + 1) |->
                                [to |-> Consumers[i + k - 1]] @@ note]]

Notify(w, note) == NotifyFrom(w, 1, note)

StartNote(a, run_id) ==
    [op |-> "start", run |-> run_id, an |-> a, types |-> RESULT_DATA_TYPES(a)]

StopNote(a, run_id) ==
    [op |-> "stop", run |-> run_id, an |-> a, types |-> <<>>]

PushNote(a, run_id, data_type) ==
    [op |-> "push", run |-> run_id, an |-> a, types |-> <<data_type>>]

\* start without `if not self.active`: every start notifies the consumers.
BaseAnalyzer_start_renotifies(w, a, run_id, daq) ==
    IF ~w.an[a].disabled
    THEN Notify([w EXCEPT !.an[a].daq = daq, !.an[a].current_run_id = run_id,
                          !.an[a].active = TRUE], StartNote(a, run_id))
    ELSE [w EXCEPT !.an[a].last_run_id = run_id, !.an[a].last_daq = daq]

BaseAnalyzer_start(w, a, run_id, daq) ==
    LET o == w.an[a] IN
    IF ~o.disabled
    THEN LET w1 == [w EXCEPT !.an[a].daq = daq, !.an[a].current_run_id = run_id] IN
         IF ~o.active
         THEN Notify([w1 EXCEPT !.an[a].active = TRUE], StartNote(a, run_id))
         ELSE w1
    ELSE [w EXCEPT !.an[a].last_run_id = run_id, !.an[a].last_daq = daq]

\* start on an inactive, enabled analyzer up to `self._active = True`: the consumers
\* have not been notified yet.
BaseAnalyzer_start_assign(w, a, run_id, daq) ==
    [w EXCEPT !.an[a].daq = daq, !.an[a].current_run_id = run_id, !.an[a].active = TRUE]

\* ... and its loop over the consumers.
BaseAnalyzer_start_notify(w, a) == Notify(w, StartNote(a, w.an[a].current_run_id))

\* stop without `self._last_run_id = None; self._last_daq = None`.
BaseAnalyzer_stop_keeps_pending(w, a) ==
    LET o == w.an[a] IN
    IF ~o.active THEN w
    ELSE IF ~o.disabled
         THEN LET w2 == Notify(w, StopNote(a, o.current_run_id)) IN
              [w2 EXCEPT !.an[a].current_run_id = None, !.an[a].active = FALSE]
         ELSE w

\* stop without `if not self.active: return`: a stop on an inactive analyzer
\* notifies the consumers as well.
BaseAnalyzer_stop_always_notifies(w, a) ==
    LET w1 == [w EXCEPT !.an[a].last_run_id = None, !.an[a].last_daq = None]
        o  == w1.an[a]
    IN
    IF ~o.disabled
    THEN LET w2 == Notify(w1, StopNote(a, o.current_run_id)) IN
         [w2 EXCEPT !.an[a].current_run_id = None, !.an[a].active = FALSE]
    ELSE w1

BaseAnalyzer_stop(w, a) ==
    LET w1 == [w EXCEPT !.an[a].last_run_id = None, !.an[a].last_daq = None]
        o  == w1.an[a]
    IN
    IF ~o.active THEN w1
    ELSE IF ~o.disabled
         THEN LET w2 == Notify(w1, StopNote(a, o.current_run_id)) IN
              [w2 EXCEPT !.an[a].current_run_id = None, !.an[a].active = FALSE]
         ELSE w1

daq_put(w, a, msg) ==
    LET d == w.an[a].daq IN
    IF d = None THEN w
    ELSE IF IsProvider(d) THEN [w EXCEPT !.dlog = Append(@, [by |-> a, daq |-> d, cmd |-> msg])]
    ELSE w

\* publish without `if not self.active: return`.
BaseAnalyzer_publish_unguarded(w, a, data_type) ==
    Notify(w, PushNote(a, w.an[a].current_run_id, data_type))

BaseAnalyzer_publish(w, a, data_type) ==
    IF ~w.an[a].active THEN w
    ELSE Notify(w, PushNote(a, w.an[a].current_run_id, data_type))

----------------------------------------------------------------------------
(* RateAnalyzer: lifecycle and update thread *)

new_scalar_buffer == [i \in 1..SCALAR_BUF_SIZE |-> 0]

NewRate ==
    [update_interval |-> UpdateInterval,
     last_query_time |-> 0, query_time |-> 1, time_window |-> 0,
     last_data |-> <<>>,
     previous_scalars |-> new_scalar_buffer, scalar_buffer |-> new_scalar_buffer,
     max_rate |-> [n |-> 0, d |-> 1], min_rate |-> <<>>,
     first_cycle |-> FALSE, rates |-> <<>>,
     update_thread |-> "new", tpc |-> "check", joinable |-> FALSE,
     iters |-> 0, ncalc |-> 0]

init_update_thread(w) ==
    IF w.rate.update_thread = "alive" THEN w
    ELSE [w EXCEPT !.rate.joinable = FALSE, !.rate.update_thread = "alive",
                   !.rate.tpc = "check"]

\* A start that does not arm the first cycle.
RateAnalyzer_start_no_baseline(w, a, run_id, daq) ==
    LET w1 == BaseAnalyzer_start(w, a, run_id, daq)
        w2 == [w1 EXCEPT !.rate.time_window = 0,
                         !.rate.scalar_buffer = new_scalar_buffer]
    IN init_update_thread(w2)

RateAnalyzer_start(w, a, run_id, daq) ==
    LET w1 == BaseAnalyzer_start(w, a, run_id, daq)
        w2 == [w1 EXCEPT !.rate.first_cycle = TRUE, !.rate.time_window = 0,
                         !.rate.scalar_buffer = new_scalar_buffer]
    IN init_update_thread(w2)

\* RateAnalyzer.start after super().start() has returned.
RateAnalyzer_start_rest(w) ==
    init_update_thread([w EXCEPT !.rate.first_cycle = TRUE, !.rate.time_window = 0,
                                 !.rate.scalar_buffer = new_scalar_buffer])

\* One step of update_loop's `while self.active` test.
update_loop_check(w) ==
    IF w.an["RateAnalyzer"].active
    THEN [w EXCEPT !.rate.tpc = "test"]
    ELSE [w EXCEPT !.rate.tpc = "exit"]

\* last_data['query_time'] is a datetime and last_query_time a float: in Python
\* the two are never equal, so `!=` between them is always true.
DatetimeDiffersFromFloat(dt, f) == TRUE

\* A publish condition that does not look at the time window of the result.
update_loop_test_any_window(w) ==
    IF w.rate.last_data # <<>> /\ w.an["RateAnalyzer"].active
    THEN [w EXCEPT !.rate.tpc = "push"]
    ELSE [w EXCEPT !.rate.tpc = "query"]

\* The publish condition of update_loop, and publish's own `if not self.active`.
update_loop_test(w) ==
    LET r == w.rate IN
    IF /\ r.last_data # <<>>
       /\ DatetimeDiffersFromFloat(r.last_data[1].query_time, r.last_query_time)
       /\ r.last_data[1].time_window >= r.update_interval
       /\ w.an["RateAnalyzer"].active
    THEN [w EXCEPT !.rate.tpc = "push"]
    ELSE [w EXCEPT !.rate.tpc = "query"]

\* publish's loop over the consumers: each push reads self.current_run_id.
update_loop_push(w) ==
    [Notify(w, PushNote("RateAnalyzer", w.an["RateAnalyzer"].current_run_id, "RATE"))
        EXCEPT !.rate.tpc = "query"]

\* self.last_data = {}; query_daq_for_scalars(); time.sleep(update_interval)
update_loop_query(w) ==
    LET w1 == [w EXCEPT !.rate.last_data = <<>>,
                        !.rate.last_query_time = w.rate.query_time]
        w2 == daq_put(w1, "RateAnalyzer", [op |-> "DS", reg |-> "", val |-> <<>>])
    IN [w2 EXCEPT !.rate.query_time = w.now, !.now = w.now + w.rate.update_interval,
                  !.rate.iters = @ + 1, !.rate.tpc = "check"]

\* The loop is left: self._joinable = True, and the thread ends.
update_loop_exit(w) ==
    [w EXCEPT !.rate.joinable = TRUE, !.rate.update_thread = "dead"]

----------------------------------------------------------------------------
(* DecayAnalyzer, VelocityAnalyzer, PulseAnalyzer: start and stop *)

Cmd(op) == [op |-> op, reg |-> "", val |-> <<>>]

WC(reg, val) == [op |-> "WC", reg |-> reg, val |-> val]

\* measurement_duration = timedelta(), start_time = utcnow(): the analyzer is
\* constructed at the time the clock shows initially.
NewDecay ==
    [previous_coinc_time_03 |-> <<0, 0>>, previous_coinc_time_02 |-> <<0, 10>>,
     muon_counter |-> 0, measurement_duration |-> 0, start_time |-> 2]

DecayAnalyzer_start(w, a, run_id, daq) ==
    LET w1 == BaseAnalyzer_start(w, a, run_id, daq)
        w2 == daq_put(w1, a, Cmd("DC"))
        w3 == daq_put(w2, a, Cmd("CE"))
        w4 == daq_put(w3, a, WC("03", <<0, 4>>))
        w5 == daq_put(w4, a, WC("02", <<0, 10>>))
        w6 == daq_put(w5, a, WC("00", <<0, 15>>))
    IN [w6 EXCEPT !.decay.start_time = w.now]

DecayAnalyzer_stop(w, a) ==
    LET w1 == BaseAnalyzer_stop(w, a)
        w2 == [w1 EXCEPT !.decay.measurement_duration = @ + (w.now - w.decay.start_time)]
        w3 == daq_put(w2, a, WC("03", w2.decay.previous_coinc_time_03))
    IN daq_put(w3, a, WC("02", w2.decay.previous_coinc_time_02))

\* BaseAnalyzer.finish: consumer.finish(<class name>) for every consumer
BaseAnalyzer_finish(w, a) ==
    [w EXCEPT !.clog = @ \o
        [i \in 1..Len(Consumers) |->
            [to |-> Consumers[i], op |-> "finish", run |-> None, an |-> a, types |-> <<>>]]]

DecayAnalyzer_finish(w, a) ==
    [BaseAnalyzer_finish(w, a)
        EXCEPT !.decay.measurement_duration = @ + (w.now - w.decay.start_time)]

VelocityAnalyzer_start(w, a, run_id, daq) ==
    daq_put(BaseAnalyzer_start(w, a, run_id, daq), a, Cmd("CE"))

PulseAnalyzer_start(w, a, run_id, daq) ==
    daq_put(BaseAnalyzer_start(w, a, run_id, daq), a, Cmd("CE"))

----------------------------------------------------------------------------
(* Method dispatch on the analyzer's class *)

\* analyzer.start(run_id, daq)
Start(w, a, run_id, daq) ==
    CASE a = "RateAnalyzer"     -> RateAnalyzer_start(w, a, run_id, daq)
      [] a = "DecayAnalyzer"    -> DecayAnalyzer_start(w, a, run_id, daq)
      [] a = "VelocityAnalyzer" -> VelocityAnalyzer_start(w, a, run_id, daq)
      [] a = "PulseAnalyzer"    -> PulseAnalyzer_start(w, a, run_id, daq)
      [] OTHER                  -> BaseAnalyzer_start(w, a, run_id, daq)

\* analyzer.stop(), up to (and without) RateAnalyzer's update_thread.join()
StopBody(w, a) ==
    CASE a = "DecayAnalyzer" -> DecayAnalyzer_stop(w, a)
      [] OTHER               -> BaseAnalyzer_stop(w, a)

\* The setter without `self._last_run_id = self.current_run_id`: nothing to resume.
BaseAnalyzer_disabled_set_forgets(w, a, val) ==
    LET o == w.an[a] IN
    IF val
    THEN IF o.active
         THEN LET w1 == [w EXCEPT !.an[a].active = FALSE]
                  w2 == Notify(w1, StopNote(a, o.current_run_id))
              IN [w2 EXCEPT !.an[a].current_run_id = None, !.an[a].daq = None,
                            !.an[a].disabled = TRUE]
         ELSE [w EXCEPT !.an[a].disabled = TRUE]
    ELSE LET w1 == [w EXCEPT !.an[a].disabled = FALSE] IN
         IF o.last_run_id # None
         THEN Start(w1, a, o.last_run_id, o.last_daq)
         ELSE w1

\* The setter without its loop over the consumers: disabling tears down silently.
BaseAnalyzer_disabled_set_silent(w, a, val) ==
    LET o == w.an[a] IN
    IF val
    THEN IF o.active
         THEN [w EXCEPT !.an[a].last_run_id = o.current_run_id,
                        !.an[a].last_daq = o.daq,
                        !.an[a].active = FALSE,
                        !.an[a].current_run_id = None, !.an[a].daq = None,
                        !.an[a].disabled = TRUE]
         ELSE [w EXCEPT !.an[a].disabled = TRUE]
    ELSE LET w1 == [w EXCEPT !.an[a].disabled = FALSE] IN
         IF o.last_run_id # None
         THEN Start(w1, a, o.last_run_id, o.last_daq)
         ELSE w1

\* The setter without `self.start(self._last_run_id, self._last_daq)`: enabling only
\* clears the mark.
BaseAnalyzer_disabled_set_no_resume(w, a, val) ==
    LET o == w.an[a] IN
    IF val
    THEN IF o.active
         THEN LET w1 == [w EXCEPT !.an[a].last_run_id = o.current_run_id,
                                  !.an[a].last_daq = o.daq,
                                  !.an[a].active = FALSE]
                  w2 == Notify(w1, StopNote(a, o.current_run_id))
              IN [w2 EXCEPT !.an[a].current_run_id = None, !.an[a].daq = None,
                            !.an[a].disabled = TRUE]
         ELSE [w EXCEPT !.an[a].disabled = TRUE]
    ELSE [w EXCEPT !.an[a].disabled = FALSE]

\* analyzer.disabled = val
BaseAnalyzer_disabled_set(w, a, val) ==
    LET o == w.an[a] IN
    IF val
    THEN IF o.active
         THEN LET w1 == [w EXCEPT !.an[a].last_run_id = o.current_run_id,
                                  !.an[a].last_daq = o.daq,
                                  !.an[a].active = FALSE]
                  w2 == Notify(w1, StopNote(a, o.current_run_id))
              IN [w2 EXCEPT !.an[a].current_run_id = None, !.an[a].daq = None,
                            !.an[a].disabled = TRUE]
         ELSE [w EXCEPT !.an[a].disabled = TRUE]
    ELSE LET w1 == [w EXCEPT !.an[a].disabled = FALSE] IN
         IF o.last_run_id # None
         THEN Start(w1, a, o.last_run_id, o.last_daq)
         ELSE w1

----------------------------------------------------------------------------
(* BufferedConsumer, its queue and worker, and the consumers it wraps *)

BufferSize == 2

MaxItems == 3

MaxStarts == 2

\* BufferedConsumer(buf_size, *consumers): the consumers muonic.py wraps, in order.
Wrapped == <<"DummyConsumer", "FileConsumer">>

\* The analyzers that share the BufferedConsumer.
BufAnalyzers == {"RateAnalyzer", "PulseAnalyzer"}

\* queue.put(None)
Sentinel == [id |-> 0, an |-> None]

\* Queue(buffer_size)
NewQueue == [items |-> <<>>, unfinished_tasks |-> 0, maxsize |-> BufferSize]

NewBuffered ==
    [queue |-> NewQueue, qgen |-> 0, analyzer_count |-> 0, process_thread |-> "new",
     joinable |-> FALSE]

\* Queue.full()
Queue_full(q) == q.maxsize > 0 /\ Len(q.items) >= q.maxsize

\* A put that never waits for room.
PutReady_unbounded(q) == TRUE

\* Queue.put blocks while the queue is full.
PutReady(q) == ~Queue_full(q)

Queue_put(q, x) == [q EXCEPT !.items = Append(@, x), !.unfinished_tasks = @ + 1]

Queue_task_done(q) == [q EXCEPT !.unfinished_tasks = @ - 1]

NewWorker == [pc |-> "get", data |-> Sentinel, i |-> 1, file |-> 0, fres |-> "none"]

EmptyMap == [x \in {} |-> 0]

\* FileConsumer: open_files maps analyzer id -> data type -> file object; files[h] is
\* the state of file object h.
NewFileConsumer == [open_files |-> EmptyMap, files |-> <<>>]

DataTypeOf(a) == RESULT_DATA_TYPES(a)[1]

\* FileConsumer.start; ok says whether open() succeeds.
FileConsumer_start(f, aid, ok) ==
    LET h == Len(f.files) + 1 IN
    IF ok
    THEN [open_files |-> (aid :> (DataTypeOf(aid) :> h)) @@ f.open_files,
          files |-> Append(f.files, "open")]
    ELSE [open_files |-> (aid :> EmptyMap) @@ f.open_files, files |-> f.files]

\* close_files(analyzer_id): the loop that closes the analyzer's files
FileConsumer_close(f, aid) ==
    LET hs == {f.open_files[aid][dt] : dt \in DOMAIN f.open_files[aid]} IN
    [f EXCEPT !.files = [h \in 1..Len(f.files) |-> IF h \in hs THEN "closed" ELSE @[h]]]

\* close_files(analyzer_id): self.open_files.pop(analyzer_id)
FileConsumer_pop(f, aid) ==
    [f EXCEPT !.open_files = [x \in (DOMAIN f.open_files) \ {aid} |-> f.open_files[x]]]

\* A push_<type> without the `if aid not in self.open_files: return` guard.
FilePushIgnored_no_guard(f, aid) == FALSE

\* push_<type>: `if aid not in self.open_files: return`
FilePushIgnored(f, aid) == aid \notin DOMAIN f.open_files

NewHist == [enq |-> <<>>, dlv |-> <<>>, flog |-> <<>>, snap |-> <<>>,
            unblocked |-> {}, nput |-> 0, nstart |-> 0, ndeq |-> 0]

Idle == [pc |-> "idle", an |-> None, item |-> Sentinel, full |-> FALSE, deq |-> 0, qgen |-> 0]

BufInit ==
    /\ bc = NewBuffered
    /\ wk = NewWorker
    /\ fc = NewFileConsumer
    /\ regd = [a \in BufAnalyzers |-> "idle"]
    /\ mpc = Idle
    /\ tp = Idle
    /\ hist = NewHist

\* An _init_process_thread that starts the new thread on the queue of the last run.
init_process_thread_keeps_queue(b) ==
    IF b.process_thread = "alive" THEN b
    ELSE [b EXCEPT !.joinable = FALSE, !.qgen = @ + 1, !.process_thread = "alive"]

\* _init_process_thread
init_process_thread(b) ==
    IF b.process_thread = "alive" THEN b
    ELSE [b EXCEPT !.joinable = FALSE, !.queue = NewQueue, !.qgen = @ + 1,
                   !.process_thread = "alive"]

\* BufferedConsumer.start(run_id, analyzer_id, expected_data_types)
BufferedConsumer_start(a, ok) ==
    /\ fc' = FileConsumer_start(fc, a, ok)
    /\ bc' = [(IF bc.analyzer_count = 0 THEN init_process_thread(bc) ELSE bc)
                EXCEPT !.analyzer_count = @ + 1]
    /\ wk' = IF bc'.qgen # bc.qgen THEN NewWorker ELSE wk
    /\ hist' = IF bc'.qgen # bc.qgen
               THEN [hist EXCEPT !.enq = <<>>, !.dlv = <<>>, !.snap = <<>>, !.nstart = @ + 1]
               ELSE [hist EXCEPT !.nstart = @ + 1]
    /\ regd' = [regd EXCEPT ![a] = "active"]

BufStart(a, ok) ==
    /\ mpc.pc = "idle"
    /\ regd[a] \in {"idle", "stopped"}
    /\ hist.nstart < MaxStarts
    /\ BufferedConsumer_start(a, ok)
    /\ UNCHANGED <<anVars, appVars, mpc, tp>>

\* A caller enters BufferedConsumer.push: queue.put([data, data_type, run_id, analyzer_id])
PushCall(a) ==
    [pc |-> "put", an |-> a, item |-> [id |-> hist.nput + 1, an |-> a],
     full |-> Queue_full(bc.queue), deq |-> hist.ndeq, qgen |-> bc.qgen]

\* The put of caller c goes through: into the queue it was called on.
PutDone(c) ==
    /\ c.pc = "put"
    /\ IF c.qgen = bc.qgen
       THEN /\ PutReady(bc.queue)
            /\ bc' = [bc EXCEPT !.queue = Queue_put(@, c.item)]
            /\ hist' = [hist EXCEPT !.enq = Append(@, c.item.id),
                                    !.unblocked = IF c.full THEN @ \cup {c.item.id} ELSE @]
       ELSE /\ ~c.full
            /\ UNCHANGED <<bc, hist>>

\* The dispatcher thread publishes a result of analyzer a (active, so registered);
\* RateAnalyzer publishes from its update thread only.
MainPushCall(a) ==
    /\ mpc.pc = "idle"
    /\ a # "RateAnalyzer"
    /\ regd[a] = "active"
    /\ hist.nput < MaxItems
    /\ mpc' = PushCall(a)
    /\ hist' = [hist EXCEPT !.nput = @ + 1]
    /\ UNCHANGED <<anVars, appVars, bc, wk, fc, regd, tp>>

MainPutDone ==
    /\ PutDone(mpc)
    /\ mpc' = Idle
    /\ UNCHANGED <<anVars, appVars, wk, fc, regd, tp>>

\* The update thread publishes: RateAnalyzer is active when publish tests it, and it
\* stays active until BaseAnalyzer.stop has notified the consumers.
RatePushCall ==
    /\ tp.pc = "idle"
    /\ regd["RateAnalyzer"] \in {"active", "stopping"}
    /\ hist.nput < MaxItems
    /\ tp' = PushCall("RateAnalyzer")
    /\ hist' = [hist EXCEPT !.nput = @ + 1]
    /\ UNCHANGED <<anVars, appVars, bc, wk, fc, regd, mpc>>

RatePutDone ==
    /\ PutDone(tp)
    /\ tp' = Idle
    /\ UNCHANGED <<anVars, appVars, wk, fc, regd, mpc>>

\* BufferedConsumer.stop: self.analyzer_count -= 1, and what follows it
\* A stop that never shuts the worker down: it only forwards stop.
BufferedConsumer_stop_forwards_only(a) ==
    /\ bc' = [bc EXCEPT !.analyzer_count = @ - 1]
    /\ mpc' = [Idle EXCEPT !.pc = "close", !.an = a]
    /\ hist' = hist
    /\ regd' = [regd EXCEPT ![a] = "stopping"]

BufferedConsumer_stop(a) ==
    /\ bc' = [bc EXCEPT !.analyzer_count = @ - 1]
    /\ mpc' = [Idle EXCEPT !.pc = IF bc'.analyzer_count = 0 THEN "queue_join" ELSE "close",
                           !.an = a]
    /\ hist' = IF bc'.analyzer_count = 0 THEN [hist EXCEPT !.snap = <<hist.enq>>] ELSE hist
    /\ regd' = [regd EXCEPT ![a] = "stopping"]

BufStopCall(a) ==
    /\ mpc.pc = "idle"
    /\ regd[a] = "active"
    /\ BufferedConsumer_stop(a)
    /\ UNCHANGED <<anVars, appVars, wk, fc, tp>>

\* self.queue.join(): until every item put so far has been marked done
BufStopQueueJoin ==
    /\ mpc.pc = "queue_join"
    /\ bc.queue.unfinished_tasks = 0
    /\ mpc' = [mpc EXCEPT !.pc = "poison"]
    /\ UNCHANGED <<anVars, appVars, bc, wk, fc, regd, tp, hist>>

\* self.queue.put(None)
BufStopPoison ==
    /\ mpc.pc = "poison"
    /\ PutReady(bc.queue)
    /\ bc' = [bc EXCEPT !.queue = Queue_put(@, Sentinel)]
    /\ mpc' = [mpc EXCEPT !.pc = "thread_join"]
    /\ UNCHANGED <<anVars, appVars, wk, fc, regd, tp, hist>>

\* self.process_thread.join()
BufStopThreadJoin ==
    /\ mpc.pc = "thread_join"
    /\ bc.process_thread = "dead"
    /\ mpc' = [mpc EXCEPT !.pc = "close"]
    /\ UNCHANGED <<anVars, appVars, bc, wk, fc, regd, tp, hist>>

\* for consumer in self.consumers: consumer.stop(...): FileConsumer closes the files
BufStopClose ==
    /\ mpc.pc = "close"
    /\ fc' = FileConsumer_close(fc, mpc.an)
    /\ mpc' = [mpc EXCEPT !.pc = "pop"]
    /\ UNCHANGED <<anVars, appVars, bc, wk, regd, tp, hist>>

\* ... and forgets the analyzer; stop returns
BufStopPop ==
    /\ mpc.pc = "pop"
    /\ fc' = FileConsumer_pop(fc, mpc.an)
    /\ regd' = [regd EXCEPT ![mpc.an] = "stopped"]
    /\ mpc' = Idle
    /\ UNCHANGED <<anVars, appVars, bc, wk, tp, hist>>

WorkerAt(pc) == bc.process_thread = "alive" /\ wk.pc = pc

\* After consumer i's push: the next consumer, or queue.task_done().
NextConsumer(w) ==
    IF w.i < Len(Wrapped) THEN [w EXCEPT !.pc = "push", !.i = @ + 1]
    ELSE [w EXCEPT !.pc = "done"]

\* An exception leaves _process_data: the thread ends without task_done.
Raised(w, e) == [w EXCEPT !.pc = "raised", !.fres = e]

\* data = self.queue.get(); if data is None: break ... self._joinable = True
WorkerGet ==
    /\ WorkerAt("get")
    /\ bc.queue.items # <<>>
    /\ LET data == Head(bc.queue.items)
           b1   == [bc EXCEPT !.queue.items = Tail(@)]
       IN IF data = Sentinel
          THEN /\ bc' = [b1 EXCEPT !.joinable = TRUE, !.process_thread = "dead"]
               /\ wk' = [wk EXCEPT !.pc = "exited", !.data = data]
          ELSE /\ bc' = b1
               /\ wk' = [NewWorker EXCEPT !.pc = "push", !.data = data]
    /\ hist' = [hist EXCEPT !.ndeq = @ + 1]
    /\ UNCHANGED <<anVars, appVars, fc, regd, mpc, tp>>

\* DummyConsumer.push prints.
WorkerDummyPush ==
    /\ WorkerAt("push")
    /\ Wrapped[wk.i] = "DummyConsumer"
    /\ hist' = [hist EXCEPT !.dlv = Append(@, <<"DummyConsumer", wk.data.id>>)]
    /\ wk' = NextConsumer(wk)
    /\ UNCHANGED <<anVars, appVars, bc, fc, regd, mpc, tp>>

\* FileConsumer.push -> push_<type>: aid not in self.open_files?
WorkerFilePush ==
    /\ WorkerAt("push")
    /\ Wrapped[wk.i] = "FileConsumer"
    /\ hist' = [hist EXCEPT !.dlv = Append(@, <<"FileConsumer", wk.data.id>>)]
    /\ wk' = IF FilePushIgnored(fc, wk.data.an)
             THEN NextConsumer([wk EXCEPT !.fres = "ignored"])
             ELSE [wk EXCEPT !.pc = "fget"]
    /\ UNCHANGED <<anVars, appVars, bc, fc, regd, mpc, tp>>

\* file = self.open_files[aid].get(<type>, None)
WorkerFileGet ==
    /\ WorkerAt("fget")
    /\ LET aid == wk.data.an IN
       IF aid \notin DOMAIN fc.open_files
       THEN /\ wk' = Raised(wk, "KeyError")
            /\ bc' = [bc EXCEPT !.process_thread = "dead"]
       ELSE /\ wk' = [wk EXCEPT !.pc = "fwrite",
                                !.file = IF DataTypeOf(aid) \in DOMAIN fc.open_files[aid]
                                         THEN fc.open_files[aid][DataTypeOf(aid)] ELSE 0]
            /\ UNCHANGED bc
    /\ UNCHANGED <<anVars, appVars, fc, regd, mpc, tp, hist>>

\* if file: file.write(...) else: warning
WorkerFileWrite ==
    /\ WorkerAt("fwrite")
    /\ IF wk.file = 0
       THEN /\ wk' = NextConsumer([wk EXCEPT !.fres = "warned"])
            /\ UNCHANGED <<bc, hist>>
       ELSE IF fc.files[wk.file] = "closed"
       THEN /\ wk' = Raised(wk, "ValueError")
            /\ bc' = [bc EXCEPT !.process_thread = "dead"]
            /\ UNCHANGED hist
       ELSE /\ wk' = NextConsumer([wk EXCEPT !.fres = "written"])
            /\ hist' = [hist EXCEPT !.flog = Append(@, wk.data.id)]
            /\ UNCHANGED bc
    /\ UNCHANGED <<anVars, appVars, fc, regd, mpc, tp>>

\* self.queue.task_done()
WorkerTaskDone ==
    /\ WorkerAt("done")
    /\ bc' = [bc EXCEPT !.queue = Queue_task_done(@)]
    /\ wk' = [wk EXCEPT !.pc = "get"]
    /\ UNCHANGED <<anVars, appVars, fc, regd, mpc, tp, hist>>

BufNext ==
    \/ \E a \in BufAnalyzers, ok \in BOOLEAN : BufStart(a, ok)
    \/ \E a \in BufAnalyzers : MainPushCall(a)
    \/ MainPutDone
    \/ RatePushCall
    \/ RatePutDone
    \/ \E a \in BufAnalyzers : BufStopCall(a)
    \/ BufStopQueueJoin
    \/ BufStopPoison
    \/ BufStopThreadJoin
    \/ BufStopClose
    \/ BufStopPop
    \/ WorkerGet
    \/ WorkerDummyPush
    \/ WorkerFilePush
    \/ WorkerFileGet
    \/ WorkerFileWrite
    \/ WorkerTaskDone

----------------------------------------------------------------------------
(* DAQ messages.  A line is its head ("DS", "DC", "TL", ...) and the items  *)
(* that follow it, separated by single blanks; an item is a 2-character tag *)
(* ("S0", "C3"), "=" and hex digits (a digit of -1 stands for a '-' sign).  *)

Item(tag, digits) == [tag |-> tag, digits |-> digits]

\* len(item)
ItemLen(it) == 3 + Len(it.digits)

RECURSIVE SumItemLen(_)
SumItemLen(items) ==
    IF items = <<>> THEN 0 ELSE 1 + ItemLen(items[1]) + SumItemLen(Tail(items))

\* len(msg)
MsgLen(msg) == 2 + SumItemLen(msg.items)

RECURSIVE HexNat(_)
HexNat(digits) ==
    IF digits = <<>> THEN 0
    ELSE 16 * HexNat(SubSeq(digits, 1, Len(digits) - 1)) + digits[Len(digits)]

\* int(text, 16)
HexInt(digits) ==
    IF digits # <<>> /\ digits[1] = -1 THEN 0 - HexNat(Tail(digits)) ELSE HexNat(digits)

\* The last item of the line with this tag and 11 characters, if any.
RECURSIVE LastScalar(_, _, _)
LastScalar(items, tag, dflt) ==
    IF items = <<>> THEN dflt
    ELSE LET it == items[Len(items)] IN
         IF it.tag = tag /\ ItemLen(it) = 11
         THEN HexInt(it.digits)
         ELSE LastScalar(SubSeq(items, 1, Len(items) - 1), tag, dflt)

ScalarTag(i) == CASE i = 1 -> "S0" [] i = 2 -> "S1" [] i = 3 -> "S2" [] i = 4 -> "S3" [] i = 5 -> "S4"

extract_scalars_from_message(msg) ==
    [i \in 1..SCALAR_BUF_SIZE |-> LastScalar(msg.items, ScalarTag(i), 0)]

----------------------------------------------------------------------------
(* RateAnalyzer.calculate *)

\* A rate that is not divided by the time window.
Frac_undivided(n, d) == [n |-> n, d |-> 1]

\* A rate is a quotient n/d of integers, d > 0.
Frac(n, d) == [n |-> n, d |-> d]

FracLess(x, y) == x.n * y.d < y.n * x.d

\* The first index whose scalar is not positive, or 0.
FirstBad(scalars) ==
    IF \E i \in 1..SCALAR_BUF_SIZE : scalars[i] <= 0
    THEN CHOOSE i \in 1..SCALAR_BUF_SIZE :
            /\ scalars[i] <= 0
            /\ \A j \in 1..(i - 1) : scalars[j] > 0
    ELSE 0

\* The loop over the scalars, left at the first erroneous one: the previous scalars
\* after it.
DiffLoopPrevious(prev, scalars) ==
    LET bad == FirstBad(scalars) IN
    [i \in 1..SCALAR_BUF_SIZE |-> IF bad = 0 \/ i < bad THEN scalars[i] ELSE prev[i]]

RateAnalyzer_calculate(r, msg) ==
    IF msg.head # "DS" THEN r
    ELSE
    LET scalars == extract_scalars_from_message(msg) IN
    IF r.first_cycle
    THEN [r EXCEPT !.previous_scalars = scalars, !.first_cycle = FALSE, !.ncalc = @ + 1]
    ELSE
    LET bad  == FirstBad(scalars)
        prev == DiffLoopPrevious(r.previous_scalars, scalars)
    IN
    IF bad # 0 THEN [r EXCEPT !.previous_scalars = prev, !.ncalc = @ + 1]
    ELSE
    LET scalar_diffs == [i \in 1..SCALAR_BUF_SIZE |-> scalars[i] - r.previous_scalars[i]]
        time_window  == r.query_time - r.last_query_time
        rates        == [i \in 1..SCALAR_BUF_SIZE |-> Frac(scalar_diffs[i], time_window)]
        min_rate     == IF r.min_rate = <<>> \/ FracLess(rates[5], r.min_rate[1])
                        THEN <<rates[5]>> ELSE r.min_rate
        max_rate     == IF FracLess(r.max_rate, rates[5]) THEN rates[5] ELSE r.max_rate
    IN [r EXCEPT !.previous_scalars = prev,
                 !.rates = <<rates, time_window, scalar_diffs>>,
                 !.time_window = @ + time_window,
                 !.scalar_buffer = [i \in 1..SCALAR_BUF_SIZE |-> @[i] + scalar_diffs[i]],
                 !.min_rate = min_rate, !.max_rate = max_rate,
                 !.last_data = <<[rates |-> rates, counts |-> scalars,
                                  max_rate |-> max_rate, min_rate |-> min_rate,
                                  time_window |-> time_window,
                                  query_time |-> r.query_time]>>,
                 !.ncalc = @ + 1]

----------------------------------------------------------------------------
(* Lines the card sends *)

\* An 8-character hex field holding v (-15..15).
Digits8(v) ==
    IF v < 0 THEN <<-1, 0, 0, 0, 0, 0, 0, 0 - v>> ELSE <<0, 0, 0, 0, 0, 0, 0, v>>

\* "DS S0=........ S1=........ S2=........ S3=........ S4=........"
DSLine(vec) ==
    [head |-> "DS", items |-> [i \in 1..SCALAR_BUF_SIZE |-> Item(ScalarTag(i), Digits8(vec[i]))]]

AllEqual(v) == [i \in 1..SCALAR_BUF_SIZE |-> v]

MaxScalar == 2

\* Scalar dumps with every counter at g, but for at most one (k) that reads 0 or -1.
ScalarVecs ==
    {[i \in 1..SCALAR_BUF_SIZE |-> IF i = k THEN b ELSE g] :
        g \in 1..MaxScalar, k \in 0..SCALAR_BUF_SIZE, b \in {0, -1}}

RateLines == {DSLine(v) : v \in ScalarVecs}

\* The scalar dump the lifecycle specification dispatches.
AnLines == {DSLine(AllEqual(1))}

----------------------------------------------------------------------------
(* App: settings, the two scanners, the analysis chain; the card *)

MaxLines == 1

MaxRuns == 1

\* "DC C0=.. C1=.. C2=.. C3=.."
DCLine(c0, c1, c2, c3) ==
    [head |-> "DC", items |-> <<Item("C0", c0), Item("C1", c1), Item("C2", c2), Item("C3", c3)>>]

\* A channel-config line cut short on the wire: "DC C0=0F"
DCShort == [head |-> "DC", items |-> <<Item("C0", <<0, 15>>)>>]

\* "TL L0=... L1=... L2=... L3=..."
TLLine(d) == [head |-> "TL", items |-> [i \in 1..4 |-> Item(<<"L0", "L1", "L2", "L3">>[i], d)]]

\* An event line; only its first characters matter to the scanners.
EventLine == [head |-> "80", items |-> <<>>]

RECURSIVE DecNat(_)
\* int(text)
DecNat(digits) ==
    IF digits = <<>> THEN 0
    ELSE 10 * DecNat(SubSeq(digits, 1, Len(digits) - 1)) + digits[Len(digits)]

\* App._default_settings
DefaultSettings ==
    [gate_width |-> 0, veto |-> FALSE, veto_ch |-> <<FALSE, FALSE, FALSE>>,
     active_ch |-> <<TRUE, TRUE, TRUE, TRUE>>,
     coincidence |-> <<TRUE, FALSE, FALSE, FALSE>>,
     threshold_ch |-> <<300, 300, 300, 300>>]

\* msg.startswith('TL') and len(msg) > 9
IsThresholdAck(msg) == msg.head = "TL" /\ MsgLen(msg) > 9

\* get_thresholds_from_msg: the settings after it, and what it returns
get_thresholds_from_msg(settings, msg) ==
    IF IsThresholdAck(msg)
    THEN [settings |-> [settings EXCEPT
                          !.threshold_ch = [i \in 1..4 |-> DecNat(msg.items[i].digits)]],
          ret |-> FALSE]
    ELSE [settings |-> settings, ret |-> TRUE]

\* msg.startswith('DC ') and len(msg) > 25
IsChannelAck(msg) == msg.head = "DC" /\ msg.items # <<>> /\ MsgLen(msg) > 25

\* get_channels_from_msg: the settings after it, and what it returns
get_channels_from_msg(settings, msg) ==
    IF IsChannelAck(msg)
    THEN LET coincidence_time == msg.items[4].digits \o msg.items[3].digits
             c0   == HexNat(msg.items[1].digits)
             veto == (c0 \div 64) % 4
             coin == (c0 \div 16) % 4
         IN [settings |-> [settings EXCEPT
                 !.gate_width = HexNat(coincidence_time) * 10,
                 !.veto = veto # 0,
                 !.veto_ch = [i \in 1..3 |-> veto = i],
                 !.active_ch = [i \in 1..4 |-> (c0 \div (2 ^ (i - 1))) % 2 = 1],
                 !.coincidence = [i \in 1..4 |-> coin = i - 1]],
             ret |-> FALSE]
    ELSE [settings |-> settings, ret |-> TRUE]

\* What the pulse extractor may do with a line: go on or not, and leave msg['pulses']
\* absent, None or holding pulses.
PulseOutcomes == [cont : BOOLEAN, pulses : {"absent", None, "pulses"}]

\* PulseExtractor.__call__(msg): the envelope after it
PulseExtractor(env, px) == [env EXCEPT !.pulses = px.pulses]

\* PulseAnalyzer.calculate
PulseAnalyzer_calculate(w, env) ==
    IF env.pulses \in {"absent", None} THEN w
    ELSE BaseAnalyzer_publish(w, "PulseAnalyzer", "PULSE")

\* DecayAnalyzer.calculate; found is what the trigger finds in the pulses
DecayAnalyzer_calculate(w, env, found) ==
    LET raw == env.raw IN
    IF raw.head = "DC" /\ MsgLen(raw) > 2
    THEN IF Len(raw.items) >= 4
         THEN [w EXCEPT !.decay.previous_coinc_time_03 = raw.items[4].digits,
                        !.decay.previous_coinc_time_02 = raw.items[3].digits]
         ELSE w
    ELSE IF env.pulses \in {"absent", None} THEN w
    ELSE IF found = None THEN w
    ELSE BaseAnalyzer_publish([w EXCEPT !.decay.muon_counter = @ + 1], "DecayAnalyzer", "DECAY")

\* process_incoming that runs every step whatever the one before returned.
ChainBreaks_never(res) == FALSE

\* if not analyzer(msg): break
ChainBreaks(res) == ~res

\* self.analyzers
Steps(ans) == <<"get_thresholds_from_msg", "get_channels_from_msg", "PulseExtractor">> \o ans

\* analyzer(msg) for one step of the chain; c holds the world, the settings, the
\* envelope, the steps invoked so far and the last return value.
CallStep(c, st, px, found) ==
    LET c1 == [c EXCEPT !.invoked = Append(@, st)] IN
    CASE st = "get_thresholds_from_msg" ->
           LET r == get_thresholds_from_msg(c.settings, c.env.raw)
           IN [c1 EXCEPT !.settings = r.settings, !.ret = r.ret]
      [] st = "get_channels_from_msg" ->
           LET r == get_channels_from_msg(c.settings, c.env.raw)
           IN [c1 EXCEPT !.settings = r.settings, !.ret = r.ret]
      [] st = "PulseExtractor" ->
           [c1 EXCEPT !.env = PulseExtractor(c.env, px), !.ret = px.cont]
      [] st = "PulseAnalyzer" ->
           [c1 EXCEPT !.w = PulseAnalyzer_calculate(c.w, c.env), !.ret = TRUE]
      [] st = "DecayAnalyzer" ->
           [c1 EXCEPT !.w = DecayAnalyzer_calculate(c.w, c.env, found), !.ret = TRUE]
      [] OTHER -> [c1 EXCEPT !.ret = TRUE]

RECURSIVE RunChain(_, _, _, _, _)
\* for analyzer in self.analyzers: if not isinstance(analyzer, BaseAnalyzer) or
\* analyzer.active: if not analyzer(msg): break
RunChain(c, steps, i, px, found) ==
    IF i > Len(steps) THEN c
    ELSE IF steps[i] \in Classes /\ ~c.w.an[steps[i]].active
    THEN RunChain(c, steps, i + 1, px, found)
    ELSE LET c1 == CallStep(c, steps[i], px, found) IN
         IF ChainBreaks(c1.ret) THEN c1 ELSE RunChain(c1, steps, i + 1, px, found)

RECURSIVE StartAll(_, _, _, _)
\* App.run: for analyzer in self.analyzers: analyzer.start(run_id, self.daq)
StartAll(w, ans, run_id, daq) ==
    IF ans = <<>> THEN w ELSE StartAll(Start(w, Head(ans), run_id, daq), Tail(ans), run_id, daq)

RECURSIVE StopAll(_, _)
\* App.stop: for analyzer in self.analyzers: analyzer.stop()
StopAll(w, ans) ==
    IF ans = <<>> THEN w ELSE StopAll(StopBody(w, Head(ans)), Tail(ans))

NewApp == [running |-> FALSE, settings |-> DefaultSettings, runs |-> 0]

\* The card: its coincidence registers, the lines on their way to the dispatcher,
\* how many of the commands put to the transport it has taken, how many lines it
\* has sent unasked, and the register values of its last configuration report.
NewCard(r02, r03) ==
    [r00 |-> <<0, 15>>, r02 |-> r02, r03 |-> r03, out |-> <<>>, seen |-> 0, nsent |-> 0,
     reported |-> <<>>]

NewChain ==
    [n |-> 0, msg |-> EventLine, invoked |-> <<>>, actives |-> <<>>,
     px |-> [cont |-> TRUE, pulses |-> "absent"], prevAck |-> FALSE, acks |-> 0]

----------------------------------------------------------------------------
(* The lifecycle specification: one analyzer of any class, driven through   *)
(* start / stop / disable / enable by one calling thread, its consumers,    *)
(* and (RateAnalyzer) the update thread and the scalar dumps dispatched to  *)
(* it.                                                                      *)

World == [an |-> an, rate |-> rate, decay |-> decay, clog |-> clog, dlog |-> dlog, now |-> now]

CommitWorld(w) ==
    /\ an' = w.an
    /\ rate' = w.rate
    /\ decay' = w.decay
    /\ clog' = w.clog
    /\ dlog' = w.dlog
    /\ now' = w.now

Commit(w) == CommitWorld(w) /\ UNCHANGED <<bufVars, appVars>>

\* Everything but the list of analyzers, after construction.
ObjInit ==
    /\ an = [a \in Range(analyzers) |-> NewAnalyzer]
    /\ rate = NewRate
    /\ decay = NewDecay
    /\ clog = <<>>
    /\ dlog = <<>>
    /\ now = 2
    /\ mainpc = "idle"
    /\ ret = "none"
    /\ calls = <<>>
    /\ BufInit

AnInit ==
    /\ analyzers \in {<<a>> : a \in Classes}
    /\ ObjInit
    /\ app = NewApp
    /\ card = NewCard(<<0, 10>>, <<0, 0>>)
    /\ chain = NewChain

CanCall == mainpc = "idle" /\ Len(calls) < MaxCalls

Returned(c) ==
    /\ calls' = Append(calls, c)
    /\ mainpc' = "idle"
    /\ ret' = "ok"
    /\ UNCHANGED analyzers

CallStart(a, r) ==
    /\ CanCall
    /\ Commit(Start(World, a, r, DaqOf(r)))
    /\ Returned([op |-> "start", run |-> r])

\* A stop that does not wait for a running thread.
JoinOutcome_no_wait(thread) ==
    CASE thread = "new"   -> [pc |-> "idle", ret |-> "RuntimeError"]
      [] OTHER            -> [pc |-> "idle", ret |-> "ok"]

\* threading.Thread.join() as RateAnalyzer.stop reaches it: RuntimeError on a thread
\* that was never started, blocking while the thread is alive.
JoinOutcome(thread) ==
    CASE thread = "new"   -> [pc |-> "idle", ret |-> "RuntimeError"]
      [] thread = "alive" -> [pc |-> "join", ret |-> "blocked"]
      [] thread = "dead"  -> [pc |-> "idle", ret |-> "ok"]

\* How analyzer.stop() goes on after its body.
StopOutcome(a, thread) ==
    IF a = "RateAnalyzer" THEN JoinOutcome(thread) ELSE [pc |-> "idle", ret |-> "ok"]

CallStop(a) ==
    /\ CanCall
    /\ Commit(StopBody(World, a))
    /\ calls' = Append(calls, [op |-> "stop", run |-> None])
    /\ mainpc' = StopOutcome(a, rate.update_thread).pc
    /\ ret' = StopOutcome(a, rate.update_thread).ret
    /\ UNCHANGED analyzers

\* update_thread.join() returns once the thread has ended.
JoinReturn ==
    /\ mainpc = "join"
    /\ rate.update_thread = "dead"
    /\ mainpc' = "idle"
    /\ ret' = "ok"
    /\ UNCHANGED <<analyzers, an, rate, decay, clog, dlog, now, calls, bufVars, appVars>>

CallDisable(a) ==
    /\ CanCall
    /\ Commit(BaseAnalyzer_disabled_set(World, a, TRUE))
    /\ Returned([op |-> "disable", run |-> None])

CallEnable(a) ==
    /\ CanCall
    /\ Commit(BaseAnalyzer_disabled_set(World, a, FALSE))
    /\ Returned([op |-> "enable", run |-> None])

\* Pushes consumer c has received.
Pushes(c) == SelectSeq(clog, LAMBDA e : e.to = c /\ e.op = "push")

\* analyzer.publish(data, type) from the dispatcher thread, as calculate calls it.
\* RateAnalyzer publishes from its update thread only.
CallPublish(a) ==
    /\ mainpc = "idle"
    /\ a # "RateAnalyzer"
    /\ Len(Pushes(Consumers[1])) < MaxPub
    /\ Commit(BaseAnalyzer_publish(World, a, RESULT_DATA_TYPES(a)[1]))
    /\ UNCHANGED <<analyzers, mainpc, ret, calls>>

\* enable() on a RateAnalyzer whose update thread of the last activation is still
\* alive, statement by statement: the setter and start run up to `self._active =
\* True`, and the update thread may run before the consumers are notified.
CallEnableBegin(a) ==
    /\ CanCall
    /\ a = "RateAnalyzer"
    /\ rate.update_thread = "alive"
    /\ an[a].disabled
    /\ an[a].last_run_id # None
    /\ Commit(BaseAnalyzer_start_assign([World EXCEPT !.an[a].disabled = FALSE], a,
                                        an[a].last_run_id, an[a].last_daq))
    /\ mainpc' = "notify"
    /\ ret' = "none"
    /\ UNCHANGED <<analyzers, calls>>

CallEnableEnd(a) ==
    /\ mainpc = "notify"
    /\ Commit(RateAnalyzer_start_rest(BaseAnalyzer_start_notify(World, a)))
    /\ Returned([op |-> "enable", run |-> None])

\* process_incoming's step for the analyzer: called only while it is active.
DispatchRate(msg) ==
    /\ mainpc = "idle"
    /\ analyzers = <<"RateAnalyzer">>
    /\ an["RateAnalyzer"].active
    /\ rate' = RateAnalyzer_calculate(rate, msg)
    /\ UNCHANGED <<analyzers, an, decay, clog, dlog, now, mainpc, ret, calls, bufVars, appVars>>

ThreadAt(pc) == rate.update_thread = "alive" /\ rate.tpc = pc

ThreadStep(w) == Commit(w) /\ UNCHANGED <<analyzers, mainpc, ret, calls>>

UpdateLoopCheck ==
    /\ ThreadAt("check")
    /\ an["RateAnalyzer"].active => rate.iters < MaxIter
    /\ ThreadStep(update_loop_check(World))

UpdateLoopTest == ThreadAt("test") /\ ThreadStep(update_loop_test(World))

UpdateLoopPush == ThreadAt("push") /\ ThreadStep(update_loop_push(World))

UpdateLoopQuery == ThreadAt("query") /\ ThreadStep(update_loop_query(World))

UpdateLoopExit == ThreadAt("exit") /\ ThreadStep(update_loop_exit(World))

AnNext ==
    \/ \E r \in RunIds : CallStart(analyzers[1], r)
    \/ CallStop(analyzers[1])
    \/ JoinReturn
    \/ CallDisable(analyzers[1])
    \/ CallEnable(analyzers[1])
    \/ CallEnableBegin(analyzers[1])
    \/ CallEnableEnd(analyzers[1])
    \/ CallPublish(analyzers[1])
    \/ \E msg \in AnLines : rate.ncalc < MaxAnCalc /\ DispatchRate(msg)
    \/ UpdateLoopCheck
    \/ UpdateLoopTest
    \/ UpdateLoopPush
    \/ UpdateLoopQuery
    \/ UpdateLoopExit

SpecAn == AnInit /\ [][AnNext]_vars

----------------------------------------------------------------------------
(* Properties of the lifecycle specification *)

Last(s) == s[Len(s)]

\* What consumer c saw of start and stop, in order.
Lifecycle(c) == SelectSeq(clog, LAMBDA e : e.to = c /\ e.op \in {"start", "stop"})

StartDisableEnableStop(r) ==
    <<[op |-> "start", run |-> r], [op |-> "disable", run |-> None],
      [op |-> "enable", run |-> None], [op |-> "stop", run |-> None]>>

\* C1: after the calls start(r, t); disable; enable; stop on a fresh analyzer,
\* each registered consumer has seen exactly start(r), stop(r), start(r), stop(r)
\* for that analyzer: one start and one stop per activation window, all with run r.
C1_StartDisableEnableStop ==
    \A r \in RunIds :
        calls = StartDisableEnableStop(r) =>
            \A i \in 1..Len(Consumers) :
                Lifecycle(Consumers[i]) =
                    <<[to |-> Consumers[i]] @@ StartNote(analyzers[1], r),
                      [to |-> Consumers[i]] @@ StopNote(analyzers[1], r),
                      [to |-> Consumers[i]] @@ StartNote(analyzers[1], r),
                      [to |-> Consumers[i]] @@ StopNote(analyzers[1], r)>>

C1_Witness ==
    /\ calls = StartDisableEnableStop("r1")
    /\ analyzers = <<"RateAnalyzer">>
    /\ mainpc = "idle"
    /\ ret = "ok"
    /\ Len(Lifecycle("c2")) = 4

\* The run that is open: the run id of the latest start since the last stop.
RECURSIVE OpenRunOf(_)
OpenRunOf(cs) ==
    IF cs = <<>> THEN None
    ELSE CASE Last(cs).op = "stop"  -> None
           [] Last(cs).op = "start" -> Last(cs).run
           [] OTHER                 -> OpenRunOf(SubSeq(cs, 1, Len(cs) - 1))

\* C8: within one run (the same run stays open over the step) RateAnalyzer's
\* diff-based state is not reset: the first-cycle flag is not armed again and the
\* scalar buffer is not zeroed again.
C8_NoMidRunReset ==
    [][(/\ analyzers = <<"RateAnalyzer">>
        /\ OpenRunOf(calls) # None
        /\ OpenRunOf(calls') = OpenRunOf(calls))
       => /\ ~rate.first_cycle => ~rate'.first_cycle
          /\ rate.scalar_buffer # new_scalar_buffer => rate'.scalar_buffer # new_scalar_buffer
      ]_vars

\* A stop has completed (the caller is back) and start was not called since.
Stopped ==
    \E i \in 1..Len(calls) :
        /\ calls[i].op = "stop"
        /\ \A j \in (i + 1)..Len(calls) : calls[j].op # "start"
        /\ i = Len(calls) => mainpc = "idle"

DSPuts(log) == SelectSeq(log, LAMBDA e : e.by = "RateAnalyzer" /\ e.cmd.op = "DS")

\* C9: once RateAnalyzer.stop() is back, the update thread is not running (if it
\* was ever started it has left its loop on seeing the analyzer inactive), and
\* no scalar query is put to the transport until the next start.
C9_StopJoinsQueryTask ==
    /\ [](Stopped => /\ rate.update_thread # "alive"
                      /\ rate.update_thread = "dead" => rate.joinable)
    /\ [][Stopped /\ Stopped' => DSPuts(dlog') = DSPuts(dlog)]_vars

C9_Witness ==
    /\ analyzers = <<"RateAnalyzer">>
    /\ Stopped
    /\ Last(calls).op = "stop"
    /\ ret = "ok"
    /\ rate.update_thread = "dead"
    /\ DSPuts(dlog) # <<>>

\* C10: a stop() on an analyzer that was never started, or right after another
\* stop(), returns normally (no exception, no blocking) and notifies no consumer.
C10_StopIdempotent ==
    [][(/\ calls' = Append(calls, [op |-> "stop", run |-> None])
        /\ calls = <<>> \/ Last(calls).op = "stop")
       => /\ ret' = "ok"
          /\ mainpc' = "idle"
          /\ clog' = clog
      ]_vars

----------------------------------------------------------------------------
(* The rate specification: a RateAnalyzer started once, its update thread,  *)
(* and scalar dumps of every shape dispatched to calculate.                 *)

RateInit == AnInit /\ analyzers = <<"RateAnalyzer">>

RateNext ==
    \/ \E r \in RunIds : calls = <<>> /\ CallStart("RateAnalyzer", r)
    \/ \E msg \in RateLines : rate.ncalc < MaxCalc /\ DispatchRate(msg)
    \/ UpdateLoopCheck
    \/ UpdateLoopTest
    \/ UpdateLoopPush
    \/ UpdateLoopQuery

SpecRate == RateInit /\ [][RateNext]_vars

\* C5: calculate on a scalar dump after the first cycle, with a scalar that is
\* zero or negative at any position, leaves all 5 previous scalars as they were
\* and buffers no result.
C5_BadScalarKeepsPrevious ==
    [][\A msg \in RateLines :
        (/\ DispatchRate(msg)
         /\ ~rate.first_cycle
         /\ FirstBad(extract_scalars_from_message(msg)) # 0)
        => /\ rate'.previous_scalars = rate.previous_scalars
           /\ rate'.last_data = rate.last_data
      ]_vars

----------------------------------------------------------------------------
(* The fan-out specification: two analyzers share one BufferedConsumer that *)
(* wraps a DummyConsumer and a FileConsumer; the dispatcher thread starts,  *)
(* stops and publishes, the rate update thread publishes, the worker        *)
(* delivers.                                                                *)

SpecBuf == RateInit /\ [][BufNext]_vars

\* The deliveries of the items ids, one after the other, each to the wrapped
\* consumers in registration order.
RECURSIVE InOrder(_)
InOrder(ids) ==
    IF ids = <<>> THEN <<>>
    ELSE [i \in 1..Len(Wrapped) |-> <<Wrapped[i], Head(ids)>>] \o InOrder(Tail(ids))

\* C2: once a stop has brought the refcount to 0 and the worker has exited, the
\* items enqueued before that stop have been delivered exactly once each, in
\* enqueue order, to the wrapped consumers in registration order.
C2_DrainBeforeWorkerExit ==
    (hist.snap # <<>> /\ bc.process_thread = "dead")
    => SelectSeq(hist.dlv, LAMBDA e : e[2] \in Range(hist.snap[1])) = InOrder(hist.snap[1])

\* The step enqueues caller c's item, and the worker has taken an item off the
\* queue since c called push.
EnqueuedAfterGet(c) ==
    /\ hist.ndeq > c.deq
    /\ bc'.queue.items # <<>>
    /\ bc'.queue.items = Append(bc.queue.items, c.item)

\* C3: the queue never holds more than BufferSize items, and a push issued while
\* the queue was full returns only after the worker has dequeued an item, with
\* the pushed item at the tail of the queue.
C3_PushBlocksWhenFull ==
    /\ [](Len(bc.queue.items) <= BufferSize)
    /\ [][(mpc.pc = "put" /\ mpc.full /\ mpc'.pc = "idle") => EnqueuedAfterGet(mpc)]_vars
    /\ [][(tp.pc = "put" /\ tp.full /\ tp'.pc = "idle") => EnqueuedAfterGet(tp)]_vars

\* A push that was issued on a full queue has returned, its item enqueued.
C3_Witness == hist.unblocked # {} /\ hist.unblocked \subseteq Range(hist.enq)

\* C4: a FileConsumer push for an analyzer whose stop has completed returns at
\* once: nothing is written, nothing is raised, the worker goes on.
C4_PushAfterStopIgnored ==
    [][(WorkerFilePush /\ regd[wk.data.an] = "stopped")
       => /\ wk'.fres = "ignored"
          /\ wk'.pc \in {"push", "done"}
          /\ hist'.flog = hist.flog
          /\ fc' = fc
          /\ bc'.process_thread = "alive"
      ]_vars

\* The worker has delivered such a push and gone on.
C4_Witness == wk.fres = "ignored" /\ wk.pc = "done" /\ regd[wk.data.an] = "stopped"

----------------------------------------------------------------------------
(* The dispatcher specification: an App with a PulseAnalyzer and a          *)
(* DecayAnalyzer, run once or more; the card answers the commands put to    *)
(* the transport and sends lines of its own; process_incoming takes the     *)
(* lines one by one through the chain.                                      *)

AppAnalyzers == <<"PulseAnalyzer", "DecayAnalyzer">>

\* Values the card's coincidence registers 02 and 03 may hold before the run.
CardRegs == {[r02 |-> <<0, 10>>, r03 |-> <<0, 0>>], [r02 |-> <<1, 4>>, r03 |-> <<0, 5>>]}

\* Lines the card sends without being asked.
CardLines == {EventLine, TLLine(<<1, 0, 0>>), DCShort}

\* get_configuration_from_daq_card, called by App.__init__: the answers are scanned
\* if they arrived within the half second the App gives the card.
ConfiguredSettings(c) ==
    {DefaultSettings,
     get_channels_from_msg(
         get_thresholds_from_msg(DefaultSettings, TLLine(<<1, 0, 0>>)).settings,
         DCLine(c.r00, <<0, 0>>, c.r02, c.r03)).settings}

AppInit ==
    /\ analyzers = AppAnalyzers
    /\ ObjInit
    /\ card \in {NewCard(r.r02, r.r03) : r \in CardRegs}
    /\ app \in {[NewApp EXCEPT !.settings = s] : s \in ConfiguredSettings(card)}
    /\ chain = NewChain

AppFrame == UNCHANGED <<analyzers, mainpc, ret, calls, bufVars>>

\* analyzer.disabled = True, before the first run
AppDisable(a) ==
    /\ ~app.running
    /\ app.runs = 0
    /\ ~an[a].disabled
    /\ CommitWorld(BaseAnalyzer_disabled_set(World, a, TRUE))
    /\ AppFrame
    /\ UNCHANGED appVars

\* App.run, up to its loop
AppRun(run_id) ==
    /\ ~app.running
    /\ app.runs < MaxRuns
    /\ app' = [app EXCEPT !.running = TRUE, !.runs = @ + 1]
    /\ CommitWorld(StartAll(World, analyzers, run_id, "daqA"))
    /\ chain' = [chain EXCEPT !.acks = 0]
    /\ AppFrame
    /\ UNCHANGED card

\* process_incoming: one turn of its loop
ProcessLine(px, found) ==
    /\ app.running
    /\ card.out # <<>>
    /\ LET msg == Head(card.out)
           c0  == [w |-> World, settings |-> app.settings,
                   env |-> [raw |-> msg, pulses |-> "absent"], invoked |-> <<>>, ret |-> TRUE]
           c   == RunChain(c0, Steps(analyzers), 1, px, found)
       IN /\ CommitWorld(c.w)
          /\ app' = [app EXCEPT !.settings = c.settings]
          /\ chain' = [n |-> chain.n + 1, msg |-> msg, invoked |-> c.invoked,
                       actives |-> SelectSeq(analyzers, LAMBDA a : an[a].active),
                       px |-> IF "PulseExtractor" \in Range(c.invoked) THEN px ELSE NewChain.px,
                       prevAck |-> chain.n > 0 /\ IsChannelAck(chain.msg),
                       acks |-> chain.acks + (IF IsChannelAck(msg) THEN 1 ELSE 0)]
    /\ card' = [card EXCEPT !.out = Tail(@)]
    /\ AppFrame

\* App.stop
AppStop ==
    /\ app.running
    /\ app' = [app EXCEPT !.running = FALSE]
    /\ CommitWorld(StopAll(World, analyzers))
    /\ AppFrame
    /\ UNCHANGED <<card, chain>>

\* The card takes one command: DC is answered with the registers, WC writes one.
CardTakes(c, cmd) ==
    LET c1 == [c EXCEPT !.seen = @ + 1] IN
    CASE cmd.op = "DC" ->
           [c1 EXCEPT !.out = Append(@, DCLine(c.r00, <<0, 0>>, c.r02, c.r03)),
                      !.reported = <<[t03 |-> c.r03, t02 |-> c.r02]>>]
      [] cmd.op = "WC" /\ cmd.reg = "03" -> [c1 EXCEPT !.r03 = cmd.val]
      [] cmd.op = "WC" /\ cmd.reg = "02" -> [c1 EXCEPT !.r02 = cmd.val]
      [] cmd.op = "WC" /\ cmd.reg = "00" -> [c1 EXCEPT !.r00 = cmd.val]
      [] OTHER -> c1

RECURSIVE CardTakesAll(_, _)
CardTakesAll(c, log) ==
    IF c.seen >= Len(log) THEN c ELSE CardTakesAll(CardTakes(c, log[c.seen + 1].cmd), log)

\* The card works off the commands put to the transport so far, in order.
CardReply ==
    /\ card.seen < Len(dlog)
    /\ card' = CardTakesAll(card, dlog)
    /\ UNCHANGED <<anVars, bufVars, app, chain>>

CardSends(line) ==
    /\ card.nsent < MaxLines
    /\ card' = [card EXCEPT !.out = Append(@, line), !.nsent = @ + 1]
    /\ UNCHANGED <<anVars, bufVars, app, chain>>

AppNext ==
    \/ \E a \in Range(AppAnalyzers) : AppDisable(a)
    \/ \E r \in RunIds : AppRun(r)
    \/ \E px \in PulseOutcomes, found \in {None, "decay"} : ProcessLine(px, found)
    \/ AppStop
    \/ CardReply
    \/ \E line \in CardLines : CardSends(line)

SpecApp == AppInit /\ [][AppNext]_vars

\* C6: App.stop, for a DecayAnalyzer that is active and after the dispatcher has
\* taken the card's configuration acknowledgment through the chain, puts to the
\* transport WC 03 and WC 02 with the register values that acknowledgment reported.
C6_StopRestoresReported ==
    [][(AppStop /\ an["DecayAnalyzer"].active /\ chain.acks > 0 /\ card.reported # <<>>)
       => SubSeq(dlog', Len(dlog) + 1, Len(dlog')) =
            <<[by |-> "DecayAnalyzer", daq |-> "daqA", cmd |-> WC("03", card.reported[1].t03)],
              [by |-> "DecayAnalyzer", daq |-> "daqA", cmd |-> WC("02", card.reported[1].t02)]>>
      ]_vars

----------------------------------------------------------------------------
(* Properties of the consumer notifications of one analyzer *)

\* Entry j of the consumer log is a start or stop that entry i's consumer got
\* from entry i's analyzer.
LifecycleOf(j, i) ==
    /\ clog[j].to = clog[i].to
    /\ clog[j].an = clog[i].an
    /\ clog[j].op \in {"start", "stop"}

\* C11: a consumer registered on an analyzer gets no push for (run_id, analyzer)
\* before it got that analyzer's start for the run, and from the analyzers that
\* publish on the dispatcher thread no push after the stop that closed the run.
C11_PushOnlyInsideWindow ==
    \A i \in 1..Len(clog) :
        clog[i].op = "push" =>
            /\ clog[i].run # None =>
                   \E j \in 1..(i - 1) :
                       LifecycleOf(j, i) /\ clog[j].op = "start" /\ clog[j].run = clog[i].run
            /\ clog[i].an # "RateAnalyzer" =>
                   \E j \in 1..(i - 1) :
                       /\ LifecycleOf(j, i) /\ clog[j].op = "start" /\ clog[j].run = clog[i].run
                       /\ \A k \in (j + 1)..(i - 1) : ~LifecycleOf(k, i)

\* The notifications a call appended to the consumer log.
Appended == SubSeq(clog', Len(clog) + 1, Len(clog'))

\* One note for each registered consumer, in registration order.
ToAll(note) == [i \in 1..Len(Consumers) |-> [to |-> Consumers[i]] @@ note]

\* C12: stop() on an active analyzer that is not disabled notifies every consumer's
\* stop with the current run_id and the analyzer's name, and leaves the analyzer
\* inactive with its run_id and its transport reference cleared.
C12_StopClearsRunAndTransport ==
    [][\A a \in Range(analyzers) :
           (CallStop(a) /\ an[a].active /\ ~an[a].disabled) =>
               /\ SubSeq(Appended, 1, Len(Consumers)) = ToAll(StopNote(a, an[a].current_run_id))
               /\ ~an'[a].active
               /\ an'[a].current_run_id = None
               /\ an'[a].daq = None]_vars

\* C13: disable() on an active analyzer with run r and transport t sends stop(r, name)
\* to every consumer and leaves the analyzer inactive and disabled, run_id and
\* transport cleared, with (r, t) as its pending-resume arguments; disable() on an
\* inactive analyzer only sets the disabled mark.
C13_DisableTearsDownAndRemembers ==
    [][\A a \in Range(analyzers) :
           CallDisable(a) =>
               IF an[a].active
               THEN /\ Appended = ToAll(StopNote(a, an[a].current_run_id))
                    /\ an'[a] = [active |-> FALSE, disabled |-> TRUE,
                                 current_run_id |-> None, daq |-> None,
                                 last_run_id |-> an[a].current_run_id,
                                 last_daq |-> an[a].daq]
               ELSE /\ clog' = clog
                    /\ an'[a] = [an[a] EXCEPT !.disabled = TRUE]]_vars

C13_Witness ==
    /\ Len(calls) = 3
    /\ calls[2] = [op |-> "disable", run |-> None]
    /\ calls[3] = [op |-> "disable", run |-> None]
    /\ an[analyzers[1]].disabled
    /\ an[analyzers[1]].last_run_id = "r2"
    /\ an[analyzers[1]].last_daq = "daqB"
    /\ Len(Lifecycle("c2")) = 2

\* What enable() must have done to analyzer a by the time it returns.
Enabled(a) ==
    /\ ~an'[a].disabled
    /\ IF an[a].last_run_id # None
       THEN /\ an'[a].active
            /\ an'[a].current_run_id = an[a].last_run_id
            /\ an'[a].daq = an[a].last_daq
            /\ Appended = ToAll(StartNote(a, an[a].last_run_id))
       ELSE /\ an'[a].active = an[a].active
            /\ clog' = clog

\* C14 as stated: enable() clears the disabled mark; with pending-resume arguments
\* (r, t) the analyzer is active afterwards with exactly r and t and every consumer
\* got start(r, name, declared types); without them it stays as it was and no
\* consumer is called.
C14_EnableResumes ==
    [][\A a \in Range(analyzers) : CallEnable(a) => Enabled(a)]_vars

\* C14, for enable() on a disabled analyzer: the arguments of the last resume stay
\* stored after enable(), and enable() on an analyzer that is already active again
\* starts nothing.
C14_EnableResumesDisabled ==
    [][\A a \in Range(analyzers) : (CallEnable(a) /\ an[a].disabled) => Enabled(a)]_vars

C14_Witness ==
    /\ calls = <<[op |-> "disable", run |-> None], [op |-> "start", run |-> "r2"],
                 [op |-> "enable", run |-> None]>>
    /\ an[analyzers[1]].active
    /\ an[analyzers[1]].current_run_id = "r2"
    /\ an[analyzers[1]].daq = "daqB"
    /\ Len(Lifecycle("c2")) = 1

\* C15: start(r, t) on a disabled analyzer stores (r, t) as the pending-resume
\* arguments and returns without activating: the analyzer stays inactive, its
\* run_id and its transport stay unset, and no consumer gets a start.
C15_StartWhileDisabledOnlyStores ==
    [][\A a \in Range(analyzers) : \A r \in RunIds :
           (CallStart(a, r) /\ an[a].disabled) =>
               /\ an'[a].last_run_id = r
               /\ an'[a].last_daq = DaqOf(r)
               /\ ~an'[a].active
               /\ an'[a].current_run_id = None
               /\ an'[a].daq = None
               /\ clog' = clog]_vars

\* No start has been called since the last stop().
NoStartSinceStop ==
    \E i \in 1..Len(calls) :
        /\ calls[i].op = "stop"
        /\ \A j \in (i + 1)..Len(calls) : calls[j].op # "start"

\* C16: stop() always clears the pending-resume arguments: after a stop(), whatever
\* came before it, the analyzer holds no pending arguments and stays inactive, and
\* an enable() neither activates it nor sends a start, until start is called again.
C16_StopClearsPending ==
    /\ [](NoStartSinceStop =>
              \A a \in Range(analyzers) : an[a].last_run_id = None /\ ~an[a].active)
    /\ [][\A a \in Range(analyzers) :
              (CallEnable(a) /\ NoStartSinceStop) => (~an'[a].active /\ clog' = clog)]_vars

C16_Witness ==
    /\ calls = <<[op |-> "start", run |-> "r1"], [op |-> "disable", run |-> None],
                 [op |-> "stop", run |-> None], [op |-> "enable", run |-> None]>>
    /\ ~an[analyzers[1]].active
    /\ ~an[analyzers[1]].disabled
    /\ Len(Lifecycle("c1")) = 2

\* C17: start(r, t) on an analyzer that is already active with run r and transport
\* t is idempotent: no consumer gets a second start, and the active flag, the
\* run_id and the transport are the same after the call as before it.
C17_RestartSameRunIdempotent ==
    [][\A a \in Range(analyzers) : \A r \in RunIds :
           (CallStart(a, r) /\ an[a].active /\ an[a].current_run_id = r
                            /\ an[a].daq = DaqOf(r)) =>
               /\ clog' = clog
               /\ an'[a].active
               /\ an'[a].current_run_id = r
               /\ an'[a].daq = an[a].daq]_vars

C17_Witness ==
    /\ calls = <<[op |-> "start", run |-> "r2"], [op |-> "start", run |-> "r2"]>>
    /\ an[analyzers[1]].active
    /\ an[analyzers[1]].current_run_id = "r2"
    /\ Len(Lifecycle("c1")) = 1
    /\ Len(Lifecycle("c2")) = 1

\* C18: publish on an inactive analyzer (never started, stopped, or disabled) calls
\* no consumer; on an active analyzer it calls push on every registered consumer, in
\* registration order, with the data type, the current run_id and the analyzer's
\* name.  The update thread of the RateAnalyzer publishes nothing when it finds the
\* analyzer inactive.
C18_PublishOnlyWhileActive ==
    /\ [][\A a \in Range(analyzers) :
              CallPublish(a) =>
                  IF an[a].active
                  THEN Appended = ToAll(PushNote(a, an[a].current_run_id,
                                                 RESULT_DATA_TYPES(a)[1]))
                  ELSE clog' = clog]_vars
    /\ [][(UpdateLoopTest /\ ~an["RateAnalyzer"].active) =>
              (rate'.tpc # "push" /\ clog' = clog)]_vars

C18_Witness ==
    /\ analyzers = <<"PulseAnalyzer">>
    /\ calls = <<[op |-> "start", run |-> "r1"], [op |-> "disable", run |-> None]>>
    /\ Pushes("c1") = <<[to |-> "c1"] @@ PushNote("PulseAnalyzer", "r1", "PULSE")>>
    /\ Pushes("c2") = <<[to |-> "c2"] @@ PushNote("PulseAnalyzer", "r1", "PULSE")>>
    /\ Last(clog).op = "stop"

----------------------------------------------------------------------------
(* Properties of BufferedConsumer.stop *)

\* The stop in progress is at one of the steps that shut the worker down.
ShuttingDown == mpc.pc \in {"queue_join", "poison", "thread_join"}

\* C20: BufferedConsumer.stop(run, A) forwards stop(run, A) to the wrapped consumers
\* on every call, whatever the refcount: a stop returns only after the FileConsumer
\* has closed and forgotten A's files.  Only the call that brings the refcount to 0
\* drains the queue, puts the sentinel and joins the worker, and the worker keeps
\* running while the refcount is above 0.
C20_OnlyLastStopEndsWorker ==
    /\ [][BufStopPop => (mpc.an \notin DOMAIN fc'.open_files /\ regd'[mpc.an] = "stopped")]_vars
    /\ [](ShuttingDown => bc.analyzer_count = 0)
    /\ [](bc.analyzer_count > 0 => bc.process_thread = "alive")

----------------------------------------------------------------------------
(* App.close: the analyzers of a run share one BufferedConsumer *)

\* The analyzers of the App, in the order of its list; each has the one
\* BufferedConsumer as its only consumer.
CloseAnalyzers == <<"RateAnalyzer", "PulseAnalyzer">>

CloseInit ==
    /\ analyzers = CloseAnalyzers
    /\ ObjInit
    /\ app = NewApp
    /\ card = NewCard(<<0, 10>>, <<0, 0>>)
    /\ chain = NewChain

\* The analyzer's loop over its consumers called the BufferedConsumer.
Notified(w) == w.clog # clog

\* The calls of `op` the App has made so far.
NCalls(op) == Len(SelectSeq(calls, LAMBDA c : c.op = op))

\* analyzer.disabled = True, before the run
CloseDisable(a) ==
    /\ ~app.running
    /\ app.runs = 0
    /\ mainpc = "idle"
    /\ ~an[a].disabled
    /\ CommitWorld(BaseAnalyzer_disabled_set(World, a, TRUE))
    /\ UNCHANGED <<analyzers, mainpc, ret, calls, bufVars, appVars>>

\* App.run: self.running = True
CloseRun ==
    /\ ~app.running
    /\ app.runs = 0
    /\ mainpc = "idle"
    /\ app' = [app EXCEPT !.running = TRUE, !.runs = @ + 1]
    /\ mainpc' = "start"
    /\ UNCHANGED <<analyzers, an, rate, decay, clog, dlog, now, ret, calls, bufVars, card, chain>>

\* App.run: analyzer.start(run_id, self.daq) for the next analyzer of the list; the
\* start notification goes to BufferedConsumer.start.
CloseStart(a, r, ok) ==
    /\ mainpc = "start"
    /\ a = analyzers[NCalls("start") + 1]
    /\ calls # <<>> => calls[1].run = r
    /\ LET w == Start(World, a, r, DaqOf(r)) IN
       /\ CommitWorld([w EXCEPT !.clog = clog])
       /\ IF Notified(w)
          THEN BufferedConsumer_start(a, ok)
          ELSE UNCHANGED <<fc, bc, wk, hist, regd>>
    /\ calls' = Append(calls, [op |-> "start", run |-> r])
    /\ mainpc' = IF Len(calls') = Len(analyzers) THEN "idle" ELSE "start"
    /\ UNCHANGED <<analyzers, ret, mpc, tp, appVars>>

\* process_incoming: PulseAnalyzer publishes a result on the dispatcher thread.
ClosePulsePush ==
    /\ app.running
    /\ mainpc = "idle"
    /\ an["PulseAnalyzer"].active
    /\ MainPushCall("PulseAnalyzer")

\* update_loop: RateAnalyzer publishes a result on its update thread.
CloseRatePush ==
    /\ rate.update_thread = "alive"
    /\ tp.pc = "idle"
    /\ an["RateAnalyzer"].active
    /\ hist.nput < MaxItems
    /\ tp' = PushCall("RateAnalyzer")
    /\ hist' = [hist EXCEPT !.nput = @ + 1]
    /\ UNCHANGED <<anVars, appVars, bc, wk, fc, regd, mpc>>

\* update_loop finds `self.active` false and ends.
CloseRateExit ==
    /\ rate.update_thread = "alive"
    /\ tp.pc = "idle"
    /\ ~an["RateAnalyzer"].active
    /\ rate' = update_loop_exit(World).rate
    /\ UNCHANGED <<analyzers, an, decay, clog, dlog, now, mainpc, ret, calls, bufVars, appVars>>

\* App.close -> App.stop: self.running = False
CloseCall ==
    /\ app.running
    /\ mainpc = "idle"
    /\ mpc.pc = "idle"
    /\ app' = [app EXCEPT !.running = FALSE]
    /\ mainpc' = "stop"
    /\ UNCHANGED <<analyzers, an, rate, decay, clog, dlog, now, ret, calls, bufVars, card, chain>>

\* Where App.close goes on once BaseAnalyzer.stop has returned for analyzer a:
\* RateAnalyzer.stop joins its update thread, then the next analyzer is stopped, and
\* after the last one the analyzers are finished.
AfterStop(a) == IF a = Last(analyzers) THEN "finish" ELSE "stop"

CloseAfterStop(a, thread) ==
    IF a # "RateAnalyzer" THEN AfterStop(a)
    ELSE CASE JoinOutcome(thread).ret = "RuntimeError" -> "raised"
           [] JoinOutcome(thread).ret = "blocked"      -> "join"
           [] OTHER                                    -> AfterStop(a)

\* App.stop: analyzer.stop() for the next analyzer of the list, up to the return of
\* BaseAnalyzer.stop or to its call of BufferedConsumer.stop.
CloseStopCall(a) ==
    /\ mainpc = "stop"
    /\ a = analyzers[NCalls("stop") + 1]
    /\ calls' = Append(calls, [op |-> "stop", run |-> None])
    /\ an' = [an EXCEPT ![a].last_run_id = None, ![a].last_daq = None]
    /\ IF an[a].active /\ ~an[a].disabled
       THEN /\ BufferedConsumer_stop(a)
            /\ mainpc' = "stopping"
       ELSE /\ mainpc' = CloseAfterStop(a, rate.update_thread)
            /\ UNCHANGED <<bc, mpc, hist, regd>>
    /\ UNCHANGED <<analyzers, rate, decay, clog, dlog, now, ret, wk, fc, tp, appVars>>

\* BufferedConsumer.stop has returned: self.current_run_id = None; self._active = False
CloseStopReturn(a) ==
    /\ mainpc = "stopping"
    /\ mpc.pc = "idle"
    /\ a = analyzers[NCalls("stop")]
    /\ an' = [an EXCEPT ![a].current_run_id = None, ![a].active = FALSE]
    /\ mainpc' = CloseAfterStop(a, rate.update_thread)
    /\ UNCHANGED <<analyzers, rate, decay, clog, dlog, now, ret, calls, bufVars, appVars>>

\* RateAnalyzer.stop: update_thread.join() returns
CloseJoinReturn ==
    /\ mainpc = "join"
    /\ rate.update_thread = "dead"
    /\ mainpc' = AfterStop("RateAnalyzer")
    /\ UNCHANGED <<analyzers, an, rate, decay, clog, dlog, now, ret, calls, bufVars, appVars>>

\* analyzer.finish() -> BufferedConsumer.finish -> finish of every wrapped consumer
FinishNotes(a) ==
    [i \in 1..Len(Wrapped) |->
        [to |-> Wrapped[i], op |-> "finish", run |-> None, an |-> a, types |-> <<>>]]

RECURSIVE FinishAll(_)
FinishAll(ans) == IF ans = <<>> THEN <<>> ELSE FinishNotes(Head(ans)) \o FinishAll(Tail(ans))

\* App.close: for analyzer in self.analyzers: analyzer.finish()
CloseFinish ==
    /\ mainpc = "finish"
    /\ clog' = clog \o FinishAll(analyzers)
    /\ mainpc' = "closed"
    /\ UNCHANGED <<analyzers, an, rate, decay, dlog, now, ret, calls, bufVars, appVars>>

CloseNext ==
    \/ \E a \in Range(CloseAnalyzers) : CloseDisable(a)
    \/ CloseRun
    \/ \E a \in Range(CloseAnalyzers), r \in RunIds, ok \in BOOLEAN : CloseStart(a, r, ok)
    \/ ClosePulsePush
    \/ MainPutDone
    \/ CloseRatePush
    \/ RatePutDone
    \/ CloseRateExit
    \/ CloseCall
    \/ \E a \in Range(CloseAnalyzers) : CloseStopCall(a)
    \/ BufStopQueueJoin
    \/ BufStopPoison
    \/ BufStopThreadJoin
    \/ BufStopClose
    \/ BufStopPop
    \/ \E a \in Range(CloseAnalyzers) : CloseStopReturn(a)
    \/ CloseJoinReturn
    \/ CloseFinish
    \/ WorkerGet
    \/ WorkerDummyPush
    \/ WorkerFilePush
    \/ WorkerFileGet
    \/ WorkerFileWrite
    \/ WorkerTaskDone

SpecClose == CloseInit /\ [][CloseNext]_vars

\* Consumer c has received finish for analyzer a.
Finished(c, a) == \E i \in 1..Len(clog) : clog[i] = [to |-> c, op |-> "finish", run |-> None, an |-> a, types |-> <<>>]

\* C19: App.close() during a run stops every analyzer before it finishes any, and
\* when close() has returned every analyzer is inactive, the update thread of the
\* RateAnalyzer and the worker of the BufferedConsumer have ended, no file of the
\* FileConsumer is open, and every consumer has received finish for every analyzer.
C19_CloseStopsThenFinishes ==
    /\ []((\E i \in 1..Len(clog) : clog[i].op = "finish") =>
              /\ NCalls("stop") = Len(analyzers)
              /\ \A a \in Range(analyzers) : ~an[a].active /\ regd[a] # "active")
    /\ [](mainpc = "closed" =>
              /\ \A a \in Range(analyzers) : ~an[a].active
              /\ rate.update_thread # "alive"
              /\ bc.process_thread # "alive"
              /\ fc.open_files = EmptyMap
              /\ \A h \in 1..Len(fc.files) : fc.files[h] = "closed"
              /\ \A a \in Range(analyzers) : \A i \in 1..Len(Wrapped) : Finished(Wrapped[i], a))

C19_Witness ==
    /\ mainpc = "closed"
    /\ NCalls("stop") = 2
    /\ Len(fc.files) = 2
    /\ bc.process_thread = "dead"
    /\ rate.update_thread = "dead"
    /\ Len(hist.flog) >= 2

----------------------------------------------------------------------------
(* RateAnalyzer.calculate as a function of the analyzer's state and the line *)

MaxCalcSteps == 2

\* An 8-character hex field holding v (0..255).
Hex8(v) == <<0, 0, 0, 0, 0, 0, v \div 16, v % 16>>

DSLineHex(vec) ==
    [head |-> "DS", items |-> [i \in 1..SCALAR_BUF_SIZE |-> Item(ScalarTag(i), Hex8(vec[i]))]]

\* Scalar vectors of good dumps.
CalcVecs == {<<15, 12, 10, 20, 13>>, AllEqual(10), <<16, 12, 11, 20, 14>>}

GoodLines == {DSLineHex(v) : v \in CalcVecs}

\* Lines that are no well-formed scalar dump: another prefix, a dump cut short
\* after its third field, the bare prefix, a dump whose fields are a character short.
MalformedLines ==
    {[DSLineHex(<<15, 12, 10, 20, 13>>) EXCEPT !.head = "ST"],
     [DSLineHex(<<15, 12, 10, 20, 13>>) EXCEPT !.items = SubSeq(@, 1, 3)],
     [head |-> "DS", items |-> <<>>],
     [head |-> "DS", items |-> [i \in 1..SCALAR_BUF_SIZE |->
                                   Item(ScalarTag(i), <<0, 0, 0, 0, 0, 0, 7>>)]]}

CalcLines == GoodLines \cup MalformedLines

\* States of a started RateAnalyzer between two lines: in its first cycle or after
\* it, with the snapshot of an earlier dump, one or two seconds after the last query.
CalcStates ==
    {[NewRate EXCEPT !.first_cycle = f, !.previous_scalars = p,
                     !.last_query_time = 2, !.query_time = 2 + tw] :
        f \in BOOLEAN, p \in {new_scalar_buffer, AllEqual(10)}, tw \in {1, 2}}

CalcInit ==
    /\ analyzers = <<"RateAnalyzer">>
    /\ an = [a \in {"RateAnalyzer"} |->
                [NewAnalyzer EXCEPT !.active = TRUE, !.current_run_id = "r1", !.daq = "daqA"]]
    /\ rate \in CalcStates
    /\ decay = NewDecay
    /\ clog = <<>>
    /\ dlog = <<>>
    /\ now = 5
    /\ mainpc = "idle"
    /\ ret = "none"
    /\ calls = <<[op |-> "start", run |-> "r1"]>>
    /\ BufInit
    /\ app = NewApp
    /\ card = NewCard(<<0, 10>>, <<0, 0>>)
    /\ chain = NewChain

\* analyzer.calculate({'raw': msg})
CalcStep(msg) ==
    /\ rate.ncalc < MaxCalcSteps
    /\ rate' = RateAnalyzer_calculate(rate, msg)
    /\ UNCHANGED <<analyzers, an, decay, clog, dlog, now, mainpc, ret, calls, bufVars, appVars>>

CalcNext == \E msg \in CalcLines : CalcStep(msg)

SpecCalc == CalcInit /\ [][CalcNext]_vars

\* The line is a scalar dump with all 5 scalars present and positive.
GoodDump(msg) ==
    msg.head = "DS" /\ FirstBad(extract_scalars_from_message(msg)) = 0

\* x and y are the same number.
FracEq(x, y) == x.n * y.d = y.n * x.d

\* C21: on a good cycle (all 5 new scalars positive, not the first cycle) calculate
\* yields, for each of the 5 counters, rate = (new - previous) / time_window and sets
\* previous to new; previous = [10,10,10,10,10], new = [15,12,10,20,13] and
\* time_window = 2 give the rates [2.5, 1.0, 0.0, 5.0, 1.5].
C21_GoodCycleRates ==
    [][\A msg \in CalcLines :
           (CalcStep(msg) /\ GoodDump(msg) /\ ~rate.first_cycle) =>
               LET new == extract_scalars_from_message(msg)
                   tw  == rate.query_time - rate.last_query_time
               IN /\ \A i \in 1..SCALAR_BUF_SIZE :
                         FracEq(rate'.rates[1][i], Frac(new[i] - rate.previous_scalars[i], tw))
                  /\ rate'.previous_scalars = new
                  /\ (new = <<15, 12, 10, 20, 13>> /\ rate.previous_scalars = AllEqual(10)
                          /\ tw = 2) =>
                         /\ FracEq(rate'.rates[1][1], Frac(5, 2))
                         /\ FracEq(rate'.rates[1][2], Frac(1, 1))
                         /\ FracEq(rate'.rates[1][3], Frac(0, 1))
                         /\ FracEq(rate'.rates[1][4], Frac(5, 1))
                         /\ FracEq(rate'.rates[1][5], Frac(3, 2))
                         /\ rate'.rates[3] = <<5, 2, 0, 10, 3>>]_vars

C21_Witness ==
    /\ rate.ncalc = 1
    /\ rate.previous_scalars = <<15, 12, 10, 20, 13>>
    /\ rate.rates # <<>>
    /\ rate.rates[2] = 2
    /\ rate.rates[3] = <<5, 2, 0, 10, 3>>
    /\ rate.last_data # <<>>

\* The state calculate accumulates over the lines of a run.
Accumulated(r) ==
    <<r.previous_scalars, r.first_cycle, r.scalar_buffer, r.min_rate, r.max_rate, r.last_data>>

\* C22: a line that is no well-formed scalar dump (another prefix, or a 'DS' line
\* whose scalar fields are missing or of the wrong length) leaves the accumulated
\* state of the RateAnalyzer as it was: previous snapshot, first-cycle flag, scalar
\* buffer, min/max and buffered last result, in the first cycle and in later ones.
C22_MalformedLineIgnored ==
    [][\A msg \in MalformedLines :
           CalcStep(msg) => Accumulated(rate') = Accumulated(rate)]_vars

----------------------------------------------------------------------------------------------------------------------------------------
(* PulseAnalyzer.calculate on the pulses of a line *)

MaxPulseLines == 1

\* A falling edge: <<t>> when the pulse was closed at t, <<>> for None.
NoEdge == <<>>

\* What a channel of an event may hold: (leading edge, falling edge) pairs.
ChannelPulses ==
    {<<>>,
     <<<<100, <<150>>>>, <<200, NoEdge>>>>,
     <<<<5, <<9>>>>>>,
     <<<<7, NoEdge>>, <<8, <<8>>>>>>}

\* msg['pulses']: the trigger time, then the pulses of channels 0..3.
PulseInputs ==
    {<<<<>>>> \o chans : chans \in [1..4 -> ChannelPulses]}

\* The lines handed to the analyzer: with pulses, with pulses None, without the key.
PulseMsgs ==
    {[key |-> TRUE, pulses |-> <<p>>] : p \in PulseInputs}
        \cup {[key |-> TRUE, pulses |-> <<>>], [key |-> FALSE, pulses |-> <<>>]}

\* Widths that leave out the pulses without a falling edge.
pulse_widths_closed_only(pulses) ==
    [i \in 0..3 |->
        LET closed == SelectSeq(pulses[i + 2], LAMBDA p : p[2] # NoEdge)
        IN [k \in 1..Len(closed) |-> closed[k][2][1] - closed[k][1]]]

\* pulse_widths[i].append(fe - le) or .append(0.), for le, fe in channel i
pulse_widths(pulses) ==
    [i \in 0..3 |->
        [k \in 1..Len(pulses[i + 2]) |->
            IF pulses[i + 2][k][2] # NoEdge
            THEN pulses[i + 2][k][2][1] - pulses[i + 2][k][1]
            ELSE 0]]

\* publish(data, data_type), the data kept with the push
PublishData(w, a, data, data_type) ==
    IF ~w.an[a].active THEN w
    ELSE [w EXCEPT !.clog = @ \o
             [i \in 1..Len(Consumers) |->
                 [to |-> Consumers[i], data |-> data]
                     @@ PushNote(a, w.an[a].current_run_id, data_type)]]

\* PulseAnalyzer.calculate(msg), msg with or without a 'pulses' entry
PulseAnalyzer_calculate_widths(w, msg) ==
    IF ~msg.key \/ msg.pulses = <<>> THEN w
    ELSE PublishData(w, "PulseAnalyzer", pulse_widths(msg.pulses[1]), "PULSE")

PulseInit ==
    /\ analyzers = <<"PulseAnalyzer">>
    /\ an = [a \in {"PulseAnalyzer"} |->
                [NewAnalyzer EXCEPT !.active = TRUE, !.current_run_id = "r1", !.daq = "daqA"]]
    /\ rate = NewRate
    /\ decay = NewDecay
    /\ clog = <<>>
    /\ dlog = <<>>
    /\ now = 2
    /\ mainpc = "idle"
    /\ ret = "none"
    /\ calls = <<[op |-> "start", run |-> "r1"]>>
    /\ BufInit
    /\ app = NewApp
    /\ card = NewCard(<<0, 10>>, <<0, 0>>)
    /\ chain = [NewChain EXCEPT !.n = 0]

\* The dispatcher hands the analyzer one line.
PulseStep(msg) ==
    /\ chain.n < MaxPulseLines
    /\ CommitWorld(PulseAnalyzer_calculate_widths(World, msg))
    /\ chain' = [chain EXCEPT !.n = @ + 1]
    /\ UNCHANGED <<analyzers, mainpc, ret, calls, bufVars, app, card>>

PulseNext == \E msg \in PulseMsgs : PulseStep(msg)

SpecPulse == PulseInit /\ [][PulseNext]_vars

\* C23: calculate on a line carrying pulses publishes, per data channel, a width
\* list with one entry per pulse in the same order: falling edge - leading edge when
\* the falling edge is present, 0 when it is absent; pulses [(100,150),(200,None)]
\* on channel 0 give [50, 0].  A line without pulses publishes nothing.
C23_PulseWidths ==
    [][\A msg \in PulseMsgs :
           PulseStep(msg) =>
               IF msg.key /\ msg.pulses # <<>>
               THEN /\ Len(Appended) = Len(Consumers)
                    /\ \A n \in 1..Len(Consumers) :
                         /\ Appended[n].to = Consumers[n]
                         /\ Appended[n].op = "push"
                         /\ DOMAIN Appended[n].data = 0..3
                         /\ \A i \in 0..3 :
                              LET ws == Appended[n].data[i]
                                  ch == msg.pulses[1][i + 2]
                              IN /\ Len(ws) = Len(ch)
                                 /\ \A k \in 1..Len(ch) :
                                      ws[k] = IF ch[k][2] = NoEdge THEN 0
                                              ELSE ch[k][2][1] - ch[k][1]
                                 /\ ch = <<<<100, <<150>>>>, <<200, NoEdge>>>>
                                        => ws = <<50, 0>>
               ELSE clog' = clog]_vars

C23_Witness ==
    /\ analyzers = <<"PulseAnalyzer">>
    /\ Len(clog) = Len(Consumers)
    /\ clog[1].op = "push"
    /\ clog[1].data[0] = <<50, 0>>
    /\ clog[1].data[3] = <<0, 0>>

----------------------------------------------------------------------------
(* Properties of the worker of a shared BufferedConsumer *)

\* C24: with a FileConsumer wrapped in the shared BufferedConsumer, a push the worker
\* delivers while another thread runs stop for the same analyzer never raises and
\* never ends the worker: no exception leaves _process_data.
C24_WorkerNeverRaises ==
    /\ wk.pc # "raised"
    /\ wk.fres \notin {"KeyError", "ValueError"}

\* The items of analyzer a that were put on the queue and that some wrapped consumer
\* has not been handed yet: still queued, or taken by the worker and not yet pushed
\* to every consumer.
Undelivered(a) ==
    {bc.queue.items[k].id : k \in {j \in 1..Len(bc.queue.items) : bc.queue.items[j].an = a}}
        \cup (IF wk.pc = "push" /\ wk.data.an = a THEN {wk.data.id} ELSE {})

\* C25: no published result is lost when analyzers share one BufferedConsumer: when
\* the wrapped consumers receive stop(run, A), every item A pushed before has been
\* delivered to each wrapped consumer's push, also when the refcount stays above 0.
C25_DeliveredBeforeStop ==
    [][BufStopClose => Undelivered(mpc.an) = {}]_vars

\* The steps of the worker thread.
WorkerStep ==
    \/ WorkerGet
    \/ WorkerDummyPush
    \/ WorkerFilePush
    \/ WorkerFileGet
    \/ WorkerFileWrite
    \/ WorkerTaskDone

\* The steps of a BufferedConsumer.stop in progress that wait for nothing but the
\* scheduler, and those that wait for the queue or the worker.
StopStep ==
    \/ BufStopQueueJoin
    \/ BufStopPoison
    \/ BufStopThreadJoin
    \/ BufStopClose
    \/ BufStopPop

\* Fair scheduling: a thread that can run does run; a put that waits for room is
\* woken whenever the worker makes room (Queue's not_full condition).
BufFairness ==
    /\ WF_vars(WorkerStep)
    /\ WF_vars(StopStep)
    /\ SF_vars(MainPutDone)
    /\ SF_vars(RatePutDone)

SpecBufFair == RateInit /\ [][BufNext]_vars /\ BufFairness

\* C26: under fair scheduling a stop that brought the refcount to 0 eventually
\* returns, and every push that blocks on the full queue eventually returns.
C26_StopAndPushReturn ==
    /\ ShuttingDown ~> mpc.pc = "idle"
    /\ mpc.pc = "put" ~> mpc.pc = "idle"
    /\ tp.pc = "put" ~> tp.pc = "idle"

----------------------------------------------------------------------------
(* RateAnalyzer: calculate on the dispatcher thread against update_loop on  *)
(* the update thread, the published results kept with their data.          *)

MaxPubIter == 2

MaxPubCalc == 3

\* options['time_window']: 2 is an interval longer than the first time window.
PubIntervals == {UpdateInterval, 2}

PubLines == {DSLine(AllEqual(1)), DSLine(AllEqual(2))}

PubInit ==
    /\ analyzers = <<"RateAnalyzer">>
    /\ an = [a \in Range(analyzers) |-> NewAnalyzer]
    /\ rate \in {[NewRate EXCEPT !.update_interval = u] : u \in PubIntervals}
    /\ decay = NewDecay
    /\ clog = <<>>
    /\ dlog = <<>>
    /\ now = 2
    /\ mainpc = "idle"
    /\ ret = "none"
    /\ calls = <<>>
    /\ BufInit
    /\ app = NewApp
    /\ card = NewCard(<<0, 10>>, <<0, 0>>)
    /\ chain = NewChain

\* self.publish(self.last_data, DataTypes.RATE): the result read when publish is called
update_loop_publish(w) ==
    [PublishData(w, "RateAnalyzer", w.rate.last_data, "RATE") EXCEPT !.rate.tpc = "query"]

PubLoopCheck ==
    /\ ThreadAt("check")
    /\ an["RateAnalyzer"].active => rate.iters < MaxPubIter
    /\ ThreadStep(update_loop_check(World))

PubLoopPush == ThreadAt("push") /\ ThreadStep(update_loop_publish(World))

\* A step of the update thread.
PubThreadStep ==
    \/ PubLoopCheck
    \/ UpdateLoopTest
    \/ PubLoopPush
    \/ UpdateLoopQuery

PubNext ==
    \/ \E r \in RunIds : calls = <<>> /\ CallStart("RateAnalyzer", r)
    \/ \E msg \in PubLines : rate.ncalc < MaxPubCalc /\ DispatchRate(msg)
    \/ PubLoopCheck
    \/ UpdateLoopTest
    \/ PubLoopPush
    \/ UpdateLoopQuery

SpecPub == PubInit /\ [][PubNext]_vars

\* The buffered result of r is one update_loop publishes when it tests it.
Publishable(r) ==
    r.last_data # <<>> /\ r.last_data[1].time_window >= r.update_interval

\* The results the first consumer has been pushed, in order.
PushedData ==
    LET ps == SelectSeq(clog, LAMBDA e : e.op = "push" /\ e.to = Consumers[1])
    IN [i \in 1..Len(ps) |-> ps[i].data]

\* C27: a rate result calculate buffers while the analyzer stays active, with a time
\* window >= update_interval, is published by the periodic task: no step takes a
\* publishable result out of the buffer before it was published, and in particular
\* no step of the periodic task does.
C27_BufferedResultPublished ==
    [][(/\ Publishable(rate)
        /\ an["RateAnalyzer"].active
        /\ PubThreadStep
        /\ rate'.last_data # rate.last_data)
       => rate.last_data \in Range(PushedData)]_vars

\* The state of the analyzer that calculate reads and writes.
CalcState(r) ==
    <<r.last_data, r.query_time, r.last_query_time, r.previous_scalars, r.scalar_buffer,
      r.first_cycle, r.rates, r.time_window, r.min_rate, r.max_rate>>

\* C28: the periodic task writes none of the state calculate reads and writes: it
\* only reads the last-result snapshot and the active flag; the scalar buffers, the
\* snapshot and the query-time bookkeeping are left as they were by its steps.
C28_TaskWritesNoCalcState ==
    [][PubThreadStep => CalcState(rate') = CalcState(rate)]_vars

\* The results pushed to the first consumer are pairwise different.
NoResultTwice ==
    \A i, j \in 1..Len(PushedData) : i # j => PushedData[i] # PushedData[j]

\* C29: the periodic task publishes each buffered result at most once and only when
\* its time window is >= update_interval: what it pushes is the buffered result, to
\* every consumer, and an iteration that finds no newly buffered result pushes
\* nothing.
C29_PublishOnceWhenWindowLongEnough ==
    /\ []NoResultTwice
    /\ [][PubLoopPush =>
            /\ Publishable(rate)
            /\ rate.last_data \notin Range(PushedData)
            /\ Len(Appended) = Len(Consumers)
            /\ \A n \in 1..Len(Consumers) :
                 /\ Appended[n].to = Consumers[n]
                 /\ Appended[n].op = "push"
                 /\ Appended[n].data = rate.last_data]_vars
    /\ [][(PubThreadStep /\ ~Publishable(rate)) => clog' = clog]_vars

\* Two results were published, in two iterations of the loop.
C29_Witness ==
    /\ Len(PushedData) = 2
    /\ rate.iters = 2
    /\ rate.last_data = <<>>

\* C30: the first scalar-dump line after start only baselines the previous snapshot:
\* it computes no rate and buffers no result, and nothing is published for it; the
\* second good line is diffed against that baseline.
C30_FirstLineOnlyBaselines ==
    /\ [][\A msg \in PubLines :
            (DispatchRate(msg) /\ rate.ncalc = 0) =>
                /\ rate'.previous_scalars = extract_scalars_from_message(msg)
                /\ rate'.rates = <<>>
                /\ rate'.last_data = <<>>
                /\ rate'.scalar_buffer = new_scalar_buffer
                /\ clog' = clog]_vars
    /\ [](rate.ncalc <= 1 => PushedData = <<>>)
    /\ [][(PubThreadStep /\ rate.ncalc = 1) =>
            rate'.previous_scalars = rate.previous_scalars]_vars
    /\ [][\A msg \in PubLines :
            (DispatchRate(msg) /\ rate.ncalc = 1) =>
                LET new == extract_scalars_from_message(msg)
                IN /\ rate'.rates[3] =
                          [i \in 1..SCALAR_BUF_SIZE |-> new[i] - rate.previous_scalars[i]]
                   /\ rate'.last_data[1].counts = new
                   /\ rate'.previous_scalars = new]_vars

C30_Witness ==
    /\ rate.ncalc = 2
    /\ rate.previous_scalars = AllEqual(2)
    /\ rate.rates # <<>>
    /\ rate.rates[3] = AllEqual(1)
    /\ rate.last_data # <<>>

----------------------------------------------------------------------------
(* Properties of DecayAnalyzer's coincidence registers *)

\* The commands that put the coincidence registers 03 and 02 back.
RestoreCommands ==
    <<[by |-> "DecayAnalyzer", cmd |-> WC("03", decay.previous_coinc_time_03)],
      [by |-> "DecayAnalyzer", cmd |-> WC("02", decay.previous_coinc_time_02)]>>

\* The last two commands put to the transport, without the transport they went to.
LastTwoCommands ==
    [i \in 1..2 |-> [by |-> dlog[Len(dlog) - 2 + i].by, cmd |-> dlog[Len(dlog) - 2 + i].cmd]]

\* C31: every deactivation of an active DecayAnalyzer restores the coincidence
\* registers it overrode on activation: whenever the analyzer is inactive between
\* calls and has put commands to the transport, the last of them are the restore
\* commands for registers 03 and 02 (after start; stop, after start; disable and
\* after start; disable; stop alike).
C31_DeactivationRestores ==
    (/\ analyzers = <<"DecayAnalyzer">>
     /\ mainpc = "idle"
     /\ ~an["DecayAnalyzer"].active
     /\ dlog # <<>>)
    => LastTwoCommands = RestoreCommands

----------------------------------------------------------------------------
(* Properties of a BufferedConsumer used for more than one run *)

\* The worker of a run after the first one.
LaterRun == bc.qgen > 1

\* The ids delivered to wrapped consumer c, in order.
DeliveredTo(c) ==
    LET ds == SelectSeq(hist.dlv, LAMBDA e : e[1] = c)
    IN [i \in 1..Len(ds) |-> ds[i][2]]

\* C32: BufferedConsumer is reusable across runs: after the refcount returned to 0
\* and the worker exited, the next start spins up a new worker on an empty queue; in
\* the new run no wrapped consumer is handed an item twice or an item that was not
\* put on the new queue, the worker leaves only on the sentinel of the new run's
\* last stop, and it has then delivered what was pushed before that stop, in order.
C32_ReusableAcrossRuns ==
    /\ [][\A a \in BufAnalyzers, ok \in BOOLEAN :
            (BufStart(a, ok) /\ bc.analyzer_count = 0 /\ hist.nstart > 0) =>
                /\ bc.process_thread = "dead"
                /\ bc'.process_thread = "alive"
                /\ bc'.queue = NewQueue
                /\ bc'.analyzer_count = 1
                /\ wk' = NewWorker]_vars
    /\ [](LaterRun =>
            \A c \in Range(Wrapped) :
                /\ Range(DeliveredTo(c)) \subseteq Range(hist.enq)
                /\ \A i, j \in 1..Len(DeliveredTo(c)) :
                       i # j => DeliveredTo(c)[i] # DeliveredTo(c)[j])
    /\ []((LaterRun /\ wk.pc = "exited") =>
            /\ bc.analyzer_count = 0
            /\ hist.snap # <<>>
            /\ SelectSeq(hist.dlv, LAMBDA e : e[2] \in Range(hist.snap[1]))
                   = InOrder(hist.snap[1]))

\* A second run delivered an item and its worker has exited on the sentinel.
C32_Witness ==
    /\ LaterRun
    /\ wk.pc = "exited"
    /\ hist.dlv # <<>>
    /\ mpc.pc = "idle"

----------------------------------------------------------------------------
(* DecayAnalyzer's measurement duration: one DecayAnalyzer, a clock, and the *)
(* calls start, stop, finish and App.close (stop, then finish).             *)

MaxTime == 5

DecayInit == AnInit /\ analyzers = <<"DecayAnalyzer">>

\* Time passes.
DecayTick ==
    /\ now < MaxTime
    /\ now' = now + 1
    /\ UNCHANGED <<analyzers, an, rate, decay, clog, dlog, mainpc, ret, calls, bufVars, appVars>>

DecayCallFinish ==
    /\ CanCall
    /\ Commit(DecayAnalyzer_finish(World, "DecayAnalyzer"))
    /\ Returned([op |-> "finish", run |-> None])

\* App.close on an App that is running with the DecayAnalyzer as its analyzer:
\* analyzer.stop(), then analyzer.finish().
DecayCallClose ==
    /\ CanCall
    /\ Commit(DecayAnalyzer_finish(DecayAnalyzer_stop(World, "DecayAnalyzer"), "DecayAnalyzer"))
    /\ Returned([op |-> "close", run |-> None])

DecayNext ==
    \/ DecayTick
    \/ \E r \in RunIds : CallStart("DecayAnalyzer", r)
    \/ CallStop("DecayAnalyzer")
    \/ DecayCallFinish
    \/ DecayCallClose

SpecDecay == DecayInit /\ [][DecayNext]_vars

\* The call that returns with the step.
Returns(op) == Len(calls') = Len(calls) + 1 /\ Last(calls').op = op

\* The time the DecayAnalyzer has been active for in the window that is open.
OpenWindow ==
    IF an["DecayAnalyzer"].active THEN now - decay.start_time ELSE 0

\* C33: the accumulated measurement duration is the total elapsed time of the
\* activation windows, each counted once: a stop or an App.close adds the time since
\* the start that opened the window (start at s, close at e: e - s), and a stop on an
\* inactive analyzer or the finish that follows a stop adds nothing.
C33_DurationCountsEachWindowOnce ==
    [][/\ (Returns("stop") \/ Returns("close")) =>
              decay'.measurement_duration = decay.measurement_duration + OpenWindow
       /\ (Returns("finish") /\ calls # <<>> /\ Last(calls).op = "stop") =>
              decay'.measurement_duration = decay.measurement_duration
       /\ (Returns("start") \/ now' # now) =>
              decay'.measurement_duration = decay.measurement_duration]_vars

----------------------------------------------------------------------------
(* App.run: the acquisition loop on the main thread, statement by statement, *)
(* with App.close as the handler of SIGINT/SIGTERM (it runs on the main      *)
(* thread, between two of its statements) and as the end of the measurement  *)
(* duration.                                                                 *)

MaxSignals == 2

RunAnalyzers == <<"PulseAnalyzer">>

RunInit ==
    /\ analyzers = RunAnalyzers
    /\ ObjInit
    /\ app = NewApp
    /\ card = NewCard(<<0, 10>>, <<0, 0>>)
    /\ chain = NewChain

RECURSIVE FinishEach(_, _)
\* App.close: for analyzer in self.analyzers: analyzer.finish()
FinishEach(w, ans) ==
    IF ans = <<>> THEN w ELSE FinishEach(BaseAnalyzer_finish(w, Head(ans)), Tail(ans))

\* App.close: self.stop() (nothing unless running), then finish
App_close(w, running) ==
    FinishEach(IF running THEN StopAll(w, analyzers) ELSE w, analyzers)

\* App.run up to its loop: running = True, every analyzer started
RunBegin(run_id) ==
    /\ mainpc = "idle"
    /\ ~app.running
    /\ app.runs < MaxRuns
    /\ app' = [app EXCEPT !.running = TRUE, !.runs = @ + 1]
    /\ CommitWorld(StartAll(World, analyzers, run_id, "daqA"))
    /\ mainpc' = "while"
    /\ UNCHANGED <<analyzers, ret, calls, bufVars, card, chain>>

RunFrame == UNCHANGED <<analyzers, an, rate, decay, clog, dlog, now, ret, calls, bufVars>>

\* while self.running:
RunWhile ==
    /\ mainpc = "while"
    /\ mainpc' = IF app.running THEN "available" ELSE "returned"
    /\ RunFrame
    /\ UNCHANGED appVars

\* process_incoming: while self.daq.data_available(): msg = self.daq.get(0)
RunAvailable ==
    /\ mainpc = "available"
    /\ IF card.out # <<>>
       THEN /\ card' = [card EXCEPT !.out = Tail(@)]
            /\ chain' = [chain EXCEPT !.n = @ + 1, !.msg = Head(card.out)]
            /\ mainpc' = "active"
       ELSE /\ UNCHANGED <<card, chain>>
            /\ mainpc' = "sleep"
    /\ RunFrame
    /\ UNCHANGED app

\* `if not isinstance(analyzer, BaseAnalyzer) or analyzer.active:` for the analyzer
RunActive ==
    /\ mainpc = "active"
    /\ mainpc' = IF an[analyzers[1]].active THEN "call" ELSE "available"
    /\ RunFrame
    /\ UNCHANGED appVars

\* `analyzer(msg)`: the line is dispatched to the analyzer
RunDispatch ==
    /\ mainpc = "call"
    /\ CommitWorld(PulseAnalyzer_calculate(World, [raw |-> chain.msg, pulses |-> "pulses"]))
    /\ chain' = [chain EXCEPT !.invoked = Append(@, analyzers[1])]
    /\ mainpc' = "available"
    /\ UNCHANGED <<analyzers, ret, calls, bufVars, app, card>>

\* time.sleep(1)
RunSleep ==
    /\ mainpc = "sleep"
    /\ mainpc' = "duration"
    /\ RunFrame
    /\ UNCHANGED appVars

\* if duration and utcnow() > start_ts + duration: self.close()
RunDuration(exceeded) ==
    /\ mainpc = "duration"
    /\ IF exceeded
       THEN /\ CommitWorld(App_close(World, app.running))
            /\ app' = [app EXCEPT !.running = FALSE]
       ELSE /\ CommitWorld(World)
            /\ UNCHANGED app
    /\ mainpc' = "while"
    /\ UNCHANGED <<analyzers, ret, calls, bufVars, card, chain>>

\* SIGINT or SIGTERM during the run: App.close runs before the next statement of run.
RunSignal ==
    /\ mainpc \notin {"idle", "returned"}
    /\ Len(calls) < MaxSignals
    /\ CommitWorld(App_close(World, app.running))
    /\ app' = [app EXCEPT !.running = FALSE]
    /\ calls' = Append(calls, [op |-> "close", run |-> None])
    /\ UNCHANGED <<analyzers, mainpc, ret, bufVars, card, chain>>

RunNext ==
    \/ \E r \in RunIds : RunBegin(r)
    \/ RunWhile
    \/ RunAvailable
    \/ RunActive
    \/ RunDispatch
    \/ RunSleep
    \/ \E exceeded \in BOOLEAN : RunDuration(exceeded)
    \/ RunSignal
    \/ CardSends(EventLine)

SpecRun == RunInit /\ [][RunNext]_vars

\* C34: once stop or close has been invoked during the run (by a signal, or because
\* the measurement duration was exceeded) the loop of App.run ends with the current
\* tick: it is not entered again, and no line is dispatched to an analyzer after the
\* stop has completed.
C34_NoDispatchAfterStop ==
    [][/\ RunDispatch => app.running
       /\ (RunWhile /\ ~app.running) => mainpc' = "returned"]_vars

----------------------------------------------------------------------------
(* Properties of the activation windows a consumer sees *)

\* C36: for every sequence of start/stop/disable/enable calls on one analyzer, the
\* start and stop notifications a registered consumer receives strictly alternate,
\* beginning with start: never two starts without a stop between them, never a stop
\* without a preceding unmatched start.
C36_StartStopAlternate ==
    \A c \in Range(Consumers) :
        \A i \in 1..Len(Lifecycle(c)) :
            Lifecycle(c)[i].op = IF i % 2 = 1 THEN "start" ELSE "stop"

\* Two windows were opened and closed, the second by stop after a start on the
\* active analyzer.
C36_Witness ==
    /\ Len(Lifecycle("c1")) = 4
    /\ Len(Lifecycle("c2")) = 4
    /\ Len(calls) = 4
    /\ Last(calls).op = "stop"
    /\ calls[1].op = "start"

\* C37: every stop notification a consumer receives for an analyzer carries the
\* run_id of the start notification that opened that activation window, also when
\* start is called again with another run_id while the analyzer is active.
C37_StopCarriesRunOfStart ==
    \A c \in Range(Consumers) :
        \A i \in 1..Len(Lifecycle(c)) :
            (i > 1 /\ Lifecycle(c)[i].op = "stop" /\ Lifecycle(c)[i - 1].op = "start")
                => Lifecycle(c)[i].run = Lifecycle(c)[i - 1].run

\* C39: whenever RateAnalyzer is active and no start/stop/disable/enable call on it
\* is in progress, its periodic query task is alive; in particular after a disable
\* that is followed at once by an enable, whatever the old task does in between.
C39_ActiveHasQueryTask ==
    (/\ analyzers = <<"RateAnalyzer">>
     /\ mainpc = "idle"
     /\ an["RateAnalyzer"].active)
    => rate.update_thread = "alive"

\* ---------------------------------------------------------------------------
\* The reference count of the BufferedConsumer
\* ---------------------------------------------------------------------------

\* The analyzers whose activation window on the BufferedConsumer is open.
ActiveOnBuffer == {a \in BufAnalyzers : regd[a] = "active"}

\* The part of C40 about the count alone: outside a start/stop call it is the number
\* of active analyzers, and it is never negative.
RefcountCountsActive ==
    /\ bc.analyzer_count >= 0
    /\ mpc.pc = "idle" => bc.analyzer_count = Cardinality(ActiveOnBuffer)

\* C40: for a BufferedConsumer driven through analyzers, the reference count equals
\* the number of active analyzers registered on it and is never negative, and outside
\* an ongoing start/stop call the worker is alive exactly when the count is above 0.
C40_RefcountAndWorker ==
    /\ RefcountCountsActive
    /\ mpc.pc = "idle" => (bc.process_thread = "alive" <=> bc.analyzer_count > 0)

\* ---------------------------------------------------------------------------
\* The run_id of the results a consumer receives
\* ---------------------------------------------------------------------------

\* The part of C38 about null run_ids alone.
PushRunNeverNull == \A i \in 1..Len(clog) : clog[i].op = "push" => clog[i].run # None

\* C38: every push a consumer receives carries a run_id that is not None and equals
\* the run_id of the start notification that opened the window the push falls into
\* (the last start or stop the consumer got from that analyzer before the push),
\* also for the pushes of RateAnalyzer's periodic task while stop or disable runs
\* on the dispatcher thread.
C38_PushCarriesRunOfWindow ==
    \A i \in 1..Len(clog) :
        clog[i].op = "push" =>
            /\ clog[i].run # None
            /\ \E j \in 1..(i - 1) :
                   /\ LifecycleOf(j, i)
                   /\ \A k \in (j + 1)..(i - 1) : ~LifecycleOf(k, i)
                   /\ clog[j].op = "start"
                   /\ clog[j].run = clog[i].run

----------------------------------------------------------------------------
(* BaseAnalyzer.stop statement by statement, beside RateAnalyzer's update thread *)

\* stop up to its loop over the consumers: the pending start is forgotten, and an
\* active, enabled analyzer notifies its consumers.
BaseAnalyzer_stop_notify(w, a) ==
    LET w1 == [w EXCEPT !.an[a].last_run_id = None, !.an[a].last_daq = None]
        o  == w1.an[a]
    IN IF o.active /\ ~o.disabled THEN Notify(w1, StopNote(a, o.current_run_id)) ELSE w1

\* stop() is entered; it goes on to its two assignments when the analyzer is active
\* and enabled, and is over (but for RateAnalyzer's join) otherwise.
CallStopBegin(a) ==
    /\ CanCall
    /\ Commit(BaseAnalyzer_stop_notify(World, a))
    /\ IF an[a].active /\ ~an[a].disabled
       THEN /\ mainpc' = "clear_run"
            /\ ret' = "none"
            /\ calls' = calls
       ELSE /\ mainpc' = StopOutcome(a, rate.update_thread).pc
            /\ ret' = StopOutcome(a, rate.update_thread).ret
            /\ calls' = Append(calls, [op |-> "stop", run |-> None])
    /\ UNCHANGED analyzers

\* self.current_run_id = None
CallStopClearRun(a) ==
    /\ mainpc = "clear_run"
    /\ Commit([World EXCEPT !.an[a].current_run_id = None])
    /\ mainpc' = "deactivate"
    /\ UNCHANGED <<analyzers, ret, calls>>

\* self._active = False, and stop goes on to update_thread.join()
CallStopDeactivate(a) ==
    /\ mainpc = "deactivate"
    /\ Commit([World EXCEPT !.an[a].active = FALSE])
    /\ mainpc' = StopOutcome(a, rate.update_thread).pc
    /\ ret' = StopOutcome(a, rate.update_thread).ret
    /\ calls' = Append(calls, [op |-> "stop", run |-> None])
    /\ UNCHANGED analyzers

StepNext ==
    \/ \E r \in RunIds : CallStart("RateAnalyzer", r)
    \/ CallStopBegin("RateAnalyzer")
    \/ CallStopClearRun("RateAnalyzer")
    \/ CallStopDeactivate("RateAnalyzer")
    \/ JoinReturn
    \/ CallDisable("RateAnalyzer")
    \/ CallEnable("RateAnalyzer")
    \/ \E msg \in AnLines : rate.ncalc < MaxAnCalc /\ DispatchRate(msg)
    \/ UpdateLoopCheck
    \/ UpdateLoopTest
    \/ UpdateLoopPush
    \/ UpdateLoopQuery
    \/ UpdateLoopExit

SpecStep == RateInit /\ [][StepNext]_vars

\* C35: in every reachable state of an analyzer, under any sequence of start, stop,
\* disable and enable, the analyzer is never both active and disabled, and whenever
\* it is active its run_id is set.
C35_ActiveEnabledWithRun ==
    \A a \in Range(analyzers) :
        /\ ~(an[a].active /\ an[a].disabled)
        /\ an[a].active => an[a].current_run_id # None

====
